---- MODULE Spec2Model ----
(***************************************************************************)
(* Model of the Tennis_Booking booking executor (booking.py) and of the    *)
(* Arsenal availability adapter (scrapers_v2.py).                          *)
(*                                                                         *)
(* Strings that the code searches with `in` are sequences of phrases: an   *)
(* f-string is a concatenation, and `x in s` holds when the phrase x is    *)
(* one of the elements of s.  A dict is a record; dict.get(k) of a missing *)
(* key is None.  Every network request, browser step and file write is one *)
(* step of book_court, whose position is pc.                               *)
(***************************************************************************)
EXTENDS Integers, Sequences, FiniteSets, TLC

\* ------------------------------------------------------------------ bounds
MaxCalls == 1      \* book_court invocations in one behaviour
MaxRentals == 1    \* rentals of a court in a calendar payload
FirstHour == 9     \* the hours of the day the payloads and windows use
LastHour == 12
MaxMessages == 3   \* chat messages in one behaviour
MaxSelections == 6 \* selections a PreferenceEngine holds
MaxCandidates == 2 \* slots in the list given to get_preferred_slot
MaxSlots == 21     \* slots a search finds

\* --------------------------------------------------------------- constants
None == "None"
Raised == "raised"

\* 'x in s' for a phrase x and a string s
Contains(s, x) == \E i \in DOMAIN s : s[i] = x

\* dict.get(key) and dict.get(key, default)
Get(d, k) == IF k \in DOMAIN d THEN d[k] ELSE None
GetOr(d, k, dflt) == IF k \in DOMAIN d THEN d[k] ELSE dflt

\* Python truthiness of an optional string, and of a dict
Truthy(v) == v # None /\ v # ""
NonEmpty(d) == DOMAIN d # {}

\* ---------------------------------------------------------------- inputs
\* venue strings
VenueArsenal == <<"Tenniszentrum ", "Arsenal", " (", "Das Spiel", ")">>
VenuePostSV == <<"Post SV", " Wien">>
VenueOther == <<"TC Other">>

\* slots handed to book_court by a caller (besides the ones a search returned)
CallerSlots ==
    { [venue |-> VenueArsenal, date |-> "D1", time |-> <<10, 0>>,
       court_name |-> "Platz 1", square_id |-> "sq1"],
      [venue |-> VenueArsenal, date |-> "D1", time |-> <<10, 0>>,
       court_name |-> "Platz 1"],
      [venue |-> VenuePostSV, date |-> "D1", time |-> <<18, 0>>,
       court_name |-> "Platz 2", booking_link |-> "link1"],
      [venue |-> VenuePostSV, date |-> "D1", time |-> <<18, 0>>,
       court_name |-> "Platz 2"],
      [venue |-> VenueOther, date |-> "D1", time |-> <<10, 0>>,
       court_name |-> "Platz 3"],
      [date |-> "D1", time |-> <<10, 0>>, court_name |-> "Platz 4"] }

\* credentials.json as a booker's constructor finds it: unreadable JSON, no
\* entry for the venue, an entry lacking the password, a complete entry
CredFiles == {"corrupt", "absent", "partial", "full"}

\* text of a server response, and the exceptions of the transport
\* the exception a request raises when the transport fails
Transport == {"ConnectionError"}
\* the exceptions the form POST of a Post SV booking raises
PostTransport == Transport \cup {"Timeout"}

\* ------------------------------------------- DasSpielScraperV2 (Arsenal)
\* an "HH:MM" or "HH:MM:SS" string is the pair <<HH, MM>>
Hours == FirstHour..LastHour
Times == {<<h, m>> : h \in Hours, m \in {0, 30}}
Before(t, u) == t[1] * 60 + t[2] < u[1] * 60 + u[2]
Max(a, b) == IF a >= b THEN a ELSE b
Min(a, b) == IF a <= b THEN a ELSE b

\* the rentals of one court: time_start before time_end
Rentals == {r \in [time_start : Times, time_end : Times] :
                Before(r.time_start, r.time_end)}
RentalLists == UNION {[1..n -> Rentals] : n \in 0..MaxRentals}

\* the courts of a calendar payload
Courts ==
    [name : {"Platz 1"},
     time_start : {<<FirstHour, 0>>, <<FirstHour, 30>>, <<FirstHour + 1, 0>>},
     time_end : {<<LastHour - 1, 0>>, <<LastHour - 1, 30>>, <<LastHour, 0>>},
     timeblock : {30, 60},
     rentals : RentalLists]
Calendars == {<<>>} \cup {<<c>> : c \in Courts}

\* request windows (start_time, end_time)
Windows == [start_time : Times, end_time : Times]

\* the payload and window of the search that precedes a booking
SampleCalendar ==
    << [name |-> "Platz 1", time_start |-> <<FirstHour, 0>>,
        time_end |-> <<LastHour, 0>>, timeblock |-> 60,
        rentals |-> << [time_start |-> <<FirstHour, 0>>,
                        time_end |-> <<FirstHour + 1, 0>>] >>],
       [name |-> "Halle 1", time_start |-> <<FirstHour, 0>>,
        time_end |-> <<LastHour, 0>>, timeblock |-> 60,
        rentals |-> << [time_start |-> <<FirstHour + 1, 0>>,
                        time_end |-> <<LastHour, 0>>] >>] >>
SampleWindow == [start_time |-> <<FirstHour, 0>>, end_time |-> <<FirstHour + 2, 0>>]

\* scrape: the set of booked times of a court, one "HH:00" per hour
booked_times(rentals) ==
    {<<hour, 0>> : hour \in UNION {r.time_start[1]..(r.time_end[1] - 1) :
                                    r \in {rentals[i] : i \in DOMAIN rentals}}}

\* the slot dict _generate_available_slots builds
\* 'HALLE' in court_name.upper()
IsHalle(court_name) == court_name \in {"Halle 1"}

ArsenalSlot(court_name, date, time, timeblock) ==
    [venue |-> VenueArsenal, date |-> date, day_of_week |-> "Monday",
     time |-> time, court_name |-> court_name,
     court_type |-> IF IsHalle(court_name) THEN "Indoor" ELSE "Outdoor",
     indoor_outdoor |-> IF IsHalle(court_name) THEN "Indoor" ELSE "Outdoor",
     duration |-> <<ToString(timeblock), " min">>,
     location |-> "Arsenal, Wien", price |-> "N/A"]

\* the slot dict PostSVScraperV2.scrape builds from a free cell
PostSVSlot(court_name, date, time, price, href) ==
    [venue |-> VenuePostSV, date |-> date, day_of_week |-> "Monday",
     time |-> time, court_name |-> court_name, court_type |-> "Tennis",
     indoor_outdoor |-> "Mixed", duration |-> <<"60", " min">>,
     location |-> "Post SV Wien, Roggendorfgasse 2",
     price |-> <<"EUR ", price>>, booking_link |-> href]

\* the while loop of _generate_available_slots, in minutes of the day
RECURSIVE SlotsFrom(_, _, _, _, _, _)
SlotsFrom(current, end_datetime, court_name, date, timeblock, booked) ==
    IF current < end_datetime
    THEN LET time_str == <<current \div 60, current % 60>> IN
         (IF time_str \notin booked
          THEN <<ArsenalSlot(court_name, date, time_str, timeblock)>>
          ELSE <<>>)
         \o SlotsFrom(current + timeblock, end_datetime, court_name, date,
                      timeblock, booked)
    ELSE <<>>

_generate_available_slots(court_name, date, user_start, user_end, court_start, court_end, timeblock, booked) ==
    LET current == Max(user_start[1], court_start[1]) * 60
                   + (IF user_start[1] >= court_start[1] THEN user_start[2] ELSE 0)
        end_datetime == Min(user_end[1], court_end[1]) * 60
                   + (IF user_end[1] <= court_end[1] THEN user_end[2] ELSE 0)
    IN SlotsFrom(current, end_datetime, court_name, date, timeblock, booked)

\* DasSpielScraperV2.scrape: the loop over the courts of the payload
RECURSIVE ScrapeCourts(_, _, _)
ScrapeCourts(calendar, date, w) ==
    IF calendar = <<>> THEN <<>>
    ELSE LET court == Head(calendar) IN
         _generate_available_slots(court.name, date, w.start_time, w.end_time,
                                   court.time_start, court.time_end,
                                   court.timeblock, booked_times(court.rentals))
         \o ScrapeCourts(Tail(calendar), date, w)

Range(seq) == {seq[i] : i \in DOMAIN seq}

\* responses to the booking POST: the HTTP status, the 'status' field of a
\* JSON body (NoJson: the body is no JSON dict with that field), the text
NoJson == -1
RentStatuses == {200, 201, 302, 303, 401, 403, 422, 500}
RentResponses ==
    [status : {200, 302, 303}, json : {NoJson, 0, 1}, text : {<<>>, <<"Fehler">>}]
    \cup [status : {200}, json : {2}, text : {<<>>, <<"Fehler">>}]
    \cup [status : RentStatuses \ {200, 302, 303}, json : {NoJson},
          text : {<<>>, <<"Validation error">>}]
NoResponse == [status |-> 0, json |-> NoJson, text |-> <<>>]
\* no booking POST sent
NoHeaders == <<>>
\* no form POST answered
NoPsvResponse == [status |-> 0, url_reservierung |-> FALSE, text |-> <<>>]

VARIABLES
    history_file,      \* booking_history.json: the persisted list of attempts
    preferences_file,  \* user_preferences.json: the persisted selections
    pc,                \* position of the running book_court, "idle" if none
    slot,              \* argument of the running book_court
    bookings,          \* BookingHistory.bookings of the running book_court
    credentials,       \* booker.credentials
    csrf_token,        \* DasSpielBooker.csrf_token
    api_result,        \* what book_slot_api returned
    result,            \* (success, message) of the venue dispatch
    returned,          \* what the last finished book_court gave its caller
    trace,             \* external interactions of the running/last book_court
    calls,             \* number of book_court invocations so far
    response,          \* response to the booking POST of book_slot_api, if any
    headers_post,      \* headers of the booking POST of book_slot_api, if sent
    psv_response,      \* response to the form POST of PostSVBooker.book_slot, if any
    calendar_data,     \* the calendar payload the Arsenal portal serves
    window,            \* the request window of the search
    results            \* what the last DasSpielScraperV2.scrape returned

scrapeVars == <<calendar_data, window, results>>

\* the chat session (app.chat_message and ChatEngine)
VARIABLES
    context,           \* session['chat_context_<id>'] as the last request left it
    chat_response,     \* 'action' of the response to the last chat message
    attempts,          \* the slots book_court was called with from the chat,
                       \* each with the number of the search that stored it
    messages           \* number of chat messages so far

chatVars == <<context, chat_response, attempts, messages>>

\* a PreferenceEngine object
VARIABLES
    selections,        \* self.selections
    available_slots,   \* argument of the last get_preferred_slot, [] if the
                       \* last call was another one
    preferred          \* what it returned: <<>> for None, <<slot>> for a slot

engineVars == <<selections, available_slots, preferred>>

\* a run of scrape_all_portals
VARIABLES
    locations,         \* the locations argument, once defaulted
    spc,               \* position of the running scrape_all_portals
    all_results,       \* all_results
    dasspiel_results,  \* what DasSpielScraperV2.scrape returned to it
    postsv_results,    \* what PostSVScraperV2.scrape returned to it
    scraper_credentials, \* PostSVScraperV2.credentials
    fetches            \* the adapters constructed and the requests sent

portalVars == <<locations, spc, all_results, dasspiel_results, postsv_results,
                scraper_credentials, fetches>>

\* what DasSpielScraperV2.scrape leaves alone besides the booking state
\* the TimeframeParser: the day it was constructed on (a day number, Monday is
\* a multiple of 7), the text of the last parse, what it returned and whether
\* a parser has been constructed and has parsed
VARIABLES
    today, parse_text, parsed, tpc
parserVars == <<today, parse_text, parsed, tpc>>

\* two invocations of book_court running at the same time
VARIABLES
    rpc,               \* position of each invocation
    rbookings,         \* BookingHistory.bookings of each invocation
    rselections,       \* PreferenceEngine.selections of each invocation
    rsuccess,          \* success of each invocation's booker
    history_bytes,     \* booking_history.json as a file: who has it open, ...
    preferences_bytes  \* user_preferences.json as a file
raceVars == <<rpc, rbookings, rselections, rsuccess, history_bytes, preferences_bytes>>

\* a run of the command line (main.main)
VARIABLES
    cpc,               \* position of main
    pref_selections,   \* pref_engine.selections of main's PreferenceEngine
    selected_slot,     \* what prompt_user_selection returned: <<>> for None
    should_book
cliVars == <<cpc, pref_selections, selected_slot, should_book>>

\* a request to /search (app.search)
VARIABLES
    search_pc,         \* position of the handler
    search_slots,      \* slots: what scrape_all_portals returned to it
    response_data      \* the court part of the JSON it answers with
searchVars == <<search_pc, search_slots, response_data>>

extraVars == <<raceVars, cliVars, searchVars>>

laterVars == <<chatVars, engineVars, portalVars, parserVars, extraVars>>
\* what the steps of book_court leave alone
otherVars == <<scrapeVars, laterVars>>
bookingVars == <<history_file, preferences_file, pc, slot, bookings, credentials,
                 csrf_token, api_result, result, returned, trace, calls,
                 response, headers_post, psv_response>>
vars == <<bookingVars, scrapeVars, laterVars>>

Res(ok, msg) == [success |-> ok, message |-> msg]
NoResult == [success |-> FALSE, message |-> <<>>]

\* BookingHistory.load / PreferenceEngine.load_preferences
load == history_file
load_preferences == preferences_file

\* credentials.json -> data.get(venue, {})
_load_credentials(file) ==
    CASE file = "absent" -> <<>>
      [] file = "partial" -> [username |-> "u"]
      [] file = "full" -> [username |-> "u", password |-> "p"]

\* the venue test of book_court
IsArsenalVenue(venue) == Contains(venue, "Das Spiel") \/ Contains(venue, "Arsenal")
IsPostSVVenue(venue) == Contains(venue, "Post SV")

\* what an earlier run left in the two files
PriorBooking ==
    [timestamp |-> "0", status |-> "failed",
     slot |-> [venue |-> VenueOther, date |-> "D1", time |-> <<10, 0>>,
               court_name |-> "Platz 3"],
     error |-> <<"Unknown venue: ">> \o VenueOther]
PriorSelection ==
    [timestamp |-> "0", venue |-> VenuePostSV, date |-> "D1", time |-> <<18, 0>>,
     day_of_week |-> None, time_of_day |-> "evening", price |-> None,
     court_type |-> None, location |-> None, indoor_outdoor |-> None]

\* no book_court running or run yet
InitAttempt ==
    /\ pc = "idle"
    /\ slot = <<>>
    /\ bookings = <<>>
    /\ credentials = <<>>
    /\ csrf_token = None
    /\ api_result = NoResult
    /\ result = NoResult
    /\ returned = [kind |-> None, success |-> FALSE, message |-> <<>>]
    /\ trace = <<>>
    /\ calls = 0
    /\ response = NoResponse
    /\ headers_post = NoHeaders
    /\ psv_response = NoPsvResponse

InitBooking ==
    /\ history_file \in {<<>>, <<PriorBooking>>}
    /\ preferences_file \in {<<>>, <<PriorSelection>>}
    /\ InitAttempt

\* chat_message: the context of a session that has none yet
NoContext ==
    [state |-> "IDLE", last_results |-> <<>>, last_search |-> <<>>,
     conversation_history |-> <<>>]

InitSession ==
    /\ context = NoContext
    /\ chat_response = None
    /\ attempts = <<>>
    /\ messages = 0

\* no PreferenceEngine object yet
InitEngine ==
    /\ selections = <<>>
    /\ available_slots = <<>>
    /\ preferred = <<>>

\* no scrape_all_portals running
InitPortals ==
    /\ locations = <<>>
    /\ spc = "idle"
    /\ all_results = <<>>
    /\ dasspiel_results = <<>>
    /\ postsv_results = <<>>
    /\ scraper_credentials = <<>>
    /\ fetches = <<>>

NoTimeframe == [date |-> [ordinal |-> 0], start_time |-> "", end_time |-> ""]

InitParser ==
    /\ today = 0
    /\ parse_text = ""
    /\ parsed = NoTimeframe
    /\ tpc = "none"

\* a file nobody writes: no invocation inside "with open(file, 'w')", nothing
\* written since the last open, the bytes are JSON, no writer yet
Closed == [opened |-> {}, written |-> FALSE, garbled |-> FALSE, last |-> 0]

Invocations == {1, 2}

\* no book_court running
InitRace ==
    /\ rpc = [p \in Invocations |-> "idle"]
    /\ rbookings = [p \in Invocations |-> <<>>]
    /\ rselections = [p \in Invocations |-> <<>>]
    /\ rsuccess = [p \in Invocations |-> FALSE]
    /\ history_bytes = Closed
    /\ preferences_bytes = Closed

\* main not started
InitCli ==
    /\ cpc = "start"
    /\ pref_selections = <<>>
    /\ selected_slot = <<>>
    /\ should_book = FALSE

\* no request to /search yet
NoResponseData == [slots |-> <<>>, total |-> 0, preferred_index |-> <<>>]
InitSearch ==
    /\ search_pc = "idle"
    /\ search_slots = <<>>
    /\ response_data = NoResponseData

InitLater == InitSession /\ InitEngine /\ InitPortals /\ InitParser /\ InitRace /\ InitCli /\ InitSearch

Init ==
    /\ InitBooking
    /\ calendar_data = SampleCalendar
    /\ window = SampleWindow
    /\ results = <<>>
    /\ InitLater

\* DasSpielScraperV2.scrape: the page is fetched and the payload walked, or
\* the request or the parse fails and the results so far ([]) are returned
scrape ==
    /\ pc = "idle"
    /\ \/ results' = ScrapeCourts(calendar_data, "D1", window)
       \/ results' = <<>>
    /\ UNCHANGED <<bookingVars, calendar_data, window, laterVars>>

\* book_court, up to the constructor of the venue's booker
book_court(s) ==
    /\ pc = "idle"
    /\ s \in CallerSlots \cup Range(results)
    /\ calls < MaxCalls
    /\ calls' = calls + 1
    /\ slot' = s
    /\ bookings' = load
    /\ csrf_token' = None
    /\ api_result' = NoResult
    /\ returned' = [kind |-> None, success |-> FALSE, message |-> <<>>]
    /\ LET venue == GetOr(s, "venue", <<>>) IN
        IF IsArsenalVenue(venue) \/ IsPostSVVenue(venue)
        THEN \E file \in CredFiles :
            LET booker == IF IsArsenalVenue(venue) THEN "DasSpielBooker"
                          ELSE "PostSVBooker" IN
            /\ trace' = <<booker>>
            /\ IF file = "corrupt"
               THEN /\ credentials' = <<>>
                    /\ result' = Res(FALSE, <<"Booking error: ", "JSONDecodeError">>)
                    /\ pc' = "except"
               ELSE /\ credentials' = _load_credentials(file)
                    /\ result' = NoResult
                    /\ pc' = IF IsArsenalVenue(venue) THEN "book_slot_api"
                             ELSE "psv_login"
        ELSE /\ trace' = <<>>
             /\ credentials' = <<>>
             /\ result' = Res(FALSE, <<"Unknown venue: ">> \o venue)
             /\ pc' = "add_booking"
    /\ response' = NoResponse
    /\ headers_post' = NoHeaders
    /\ psv_response' = NoPsvResponse
    /\ UNCHANGED <<history_file, preferences_file, otherVars>>

\* ------------------------------------------------ DasSpielBooker (Arsenal)
M_MissingSquareId ==
    <<"Missing square_id", " for Das Spiel booking. Slot data may be outdated.">>
M_NoCredentials == <<"No credentials", " found">>

\* what login() returns as message, as book_slot_api passes it on
LoginFailed(message) == Res(FALSE, <<"Login failed: ">> \o message)

\* book_slot_api up to the first request of login()
book_slot_api ==
    /\ pc = "book_slot_api"
    /\ IF ~Truthy(Get(slot, "square_id"))
       THEN /\ api_result' = Res(FALSE, M_MissingSquareId)
            /\ pc' = "book_slot"
       ELSE IF ~NonEmpty(credentials)
       THEN /\ api_result' = LoginFailed(M_NoCredentials)
            /\ pc' = "book_slot"
       ELSE /\ api_result' = api_result
            /\ pc' = "login_get"
    /\ UNCHANGED <<history_file, preferences_file, slot, bookings, credentials,
                   csrf_token, result, returned, trace, calls, response, headers_post, psv_response, otherVars>>

\* login(): GET of the signin page, the token in it, the credentials read
login_get ==
    /\ pc = "login_get"
    /\ trace' = Append(trace, "GET signin")
    /\ \/ \E e \in Transport :
            /\ api_result' = LoginFailed(<<"Login error: ", e>>)
            /\ csrf_token' = csrf_token
            /\ pc' = "book_slot"
       \/ \E token \in {None, "csrf1"} :
            /\ csrf_token' = token
            /\ IF "password" \notin DOMAIN credentials
               THEN /\ api_result' = LoginFailed(<<"Login error: ", "'password'">>)
                    /\ pc' = "book_slot"
               ELSE /\ api_result' = api_result
                    /\ pc' = "login_post"
    /\ UNCHANGED <<history_file, preferences_file, slot, bookings, credentials,
                   result, returned, calls, response, headers_post, psv_response, otherVars>>

\* responses of the signin endpoint
SigninResponses ==
    { [status |-> 200, text |-> <<"signed-in">>],
      [status |-> 200, text |-> <<"Ungueltige Zugangsdaten">>],
      [status |-> 401, text |-> <<"Ungueltige Zugangsdaten">>],
      [status |-> 500, text |-> <<"Validation error">>] }

\* login_post with book_slot_api going on after a failed login
login_post_ignoring_failure ==
    /\ pc = "login_post"
    /\ trace' = Append(trace, "POST signin")
    /\ \/ \E e \in Transport :
            /\ api_result' = LoginFailed(<<"Login error: ", e>>)
            /\ pc' = "book_slot"
       \/ \E r \in SigninResponses :
            IF r.status = 200 /\ r.text = <<"signed-in">>
            THEN /\ api_result' = api_result
                 /\ pc' = "login_refresh"
            ELSE /\ api_result' = api_result
                 /\ pc' = "booking_data"
    /\ UNCHANGED <<history_file, preferences_file, slot, bookings, credentials,
                   csrf_token, result, returned, calls, response, headers_post, psv_response, otherVars>>

\* login(): POST of the credentials
login_post ==
    /\ pc = "login_post"
    /\ trace' = Append(trace, "POST signin")
    /\ \/ \E e \in Transport :
            /\ api_result' = LoginFailed(<<"Login error: ", e>>)
            /\ pc' = "book_slot"
       \/ \E r \in SigninResponses :
            IF r.status = 200 /\ r.text = <<"signed-in">>
            THEN /\ api_result' = api_result
                 /\ pc' = "login_refresh"
            ELSE /\ api_result' = LoginFailed(<<"Login failed: ">> \o r.text)
                 /\ pc' = "book_slot"
    /\ UNCHANGED <<history_file, preferences_file, slot, bookings, credentials,
                   csrf_token, result, returned, calls, response, headers_post, psv_response, otherVars>>

\* login(): GET of the main page to refresh the token; login() returns True
login_refresh ==
    /\ pc = "login_refresh"
    /\ \/ \E e \in Transport :
            /\ trace' = Append(trace, "GET main")
            /\ api_result' = LoginFailed(<<"Login error: ", e>>)
            /\ csrf_token' = csrf_token
            /\ pc' = "book_slot"
       \/ \E new_token \in {None, "csrf2"} :
            /\ trace' = trace \o <<"GET main", "api login ok">>
            /\ csrf_token' = IF Truthy(new_token) THEN new_token ELSE csrf_token
            /\ api_result' = api_result
            /\ pc' = "booking_data"
    /\ UNCHANGED <<history_file, preferences_file, slot, bookings, credentials,
                   result, returned, calls, response, headers_post, psv_response, otherVars>>

\* book_slot_api step 1: GET calendar/booking-data; its status is ignored
booking_data ==
    /\ pc = "booking_data"
    /\ trace' = Append(trace, "GET booking-data")
    /\ \/ /\ api_result' = Res(FALSE, <<"Booking request timed out">>)
          /\ pc' = "book_slot"
       \/ /\ api_result' = Res(FALSE, <<"API booking error: ", "ConnectionError">>)
          /\ pc' = "book_slot"
       \/ \E status \in {200, 503} :
            /\ api_result' = api_result
            /\ pc' = "rent_post"
    /\ UNCHANGED <<history_file, preferences_file, slot, bookings, credentials,
                   csrf_token, result, returned, calls, response, headers_post, psv_response, otherVars>>

\* str.lower() of a response text
Lower(text) ==
    IF text = <<"Fehler">> THEN <<"fehler">>
    ELSE IF text = <<"Validation error">> THEN <<"validation ", "error">>
    ELSE text

\* 'error' in response_text or 'fehler' in response_text
HasErrorMarker(text) ==
    Contains(Lower(text), "error") \/ Contains(Lower(text), "fehler")

Booked(s) == Res(TRUE, <<"Successfully booked ", Get(s, "court_name")>>)

\* RentOutcome without the branch for 403
RentOutcome_without_403(s, r) ==
    IF r.status \in {200, 302, 303}
    THEN IF r.json = 1 THEN Booked(s)
         ELSE IF r.json = 0
         THEN Res(FALSE, <<"Booking failed - server returned status 0">>)
         ELSE IF HasErrorMarker(r.text)
         THEN Res(FALSE, <<"Booking rejected: ">> \o r.text)
         ELSE Booked(s)
    ELSE IF r.status = 422
    THEN Res(FALSE, <<"Validation error", ": ">> \o r.text)
    ELSE IF r.status = 401
    THEN Res(FALSE, <<"Authentication failed - session may have expired">>)
    ELSE Res(FALSE, <<"Booking failed with HTTP ", ToString(r.status), ": ">> \o r.text)

\* book_slot_api: the interpretation of the response to the booking POST
RentOutcome(s, r) ==
    IF r.status \in {200, 302, 303}
    THEN IF r.json = 1 THEN Booked(s)
         ELSE IF r.json = 0
         THEN Res(FALSE, <<"Booking failed - server returned status 0">>)
         ELSE IF HasErrorMarker(r.text)
         THEN Res(FALSE, <<"Booking rejected: ">> \o r.text)
         ELSE Booked(s)
    ELSE IF r.status = 422
    THEN Res(FALSE, <<"Validation error", ": ">> \o r.text)
    ELSE IF r.status = 401
    THEN Res(FALSE, <<"Authentication failed - session may have expired">>)
    ELSE IF r.status = 403
    THEN Res(FALSE, <<"Access denied - CSRF token may be invalid">>)
    ELSE Res(FALSE, <<"Booking failed with HTTP ", ToString(r.status), ": ">> \o r.text)

\* book_slot_api: the headers of the booking POST, the token when there is one
HeadersPost(token) ==
    IF Truthy(token)
    THEN [Origin |-> "dasspiel", X_CSRF_TOKEN |-> token]
    ELSE [Origin |-> "dasspiel"]

\* book_slot_api step 2: POST user/booking/rent
rent_post ==
    /\ pc = "rent_post"
    /\ trace' = Append(trace, "POST rent")
    /\ headers_post' = HeadersPost(csrf_token)
    /\ \/ /\ api_result' = Res(FALSE, <<"Booking request timed out">>)
          /\ response' = response
       \/ /\ api_result' = Res(FALSE, <<"API booking error: ", "ConnectionError">>)
          /\ response' = response
       \/ \E r \in RentResponses :
            /\ api_result' = RentOutcome(slot, r)
            /\ response' = r
    /\ pc' = "book_slot"
    /\ UNCHANGED <<history_file, preferences_file, slot, bookings, credentials,
                   csrf_token, result, returned, calls, psv_response, otherVars>>

\* the list with a rejected login made terminal
non_retryable_with_login == {"Missing square_id", "No credentials",
                             "Validation error", "Login failed: "}
\* the list with the failures of the transport made terminal
non_retryable_with_transport == {"Missing square_id", "No credentials", "Validation error", "Booking request timed out", "API booking error: "}
\* the list without the validation error
non_retryable_without_validation == {"Missing square_id", "No credentials"}

non_retryable == {"Missing square_id", "No credentials", "Validation error"}

\* any(err in message for err in non_retryable)
IsNonRetryable(message) == \E err \in non_retryable : Contains(message, err)

\* book_slot: return the API result or fall back to the browser
book_slot ==
    /\ pc = "book_slot"
    /\ IF api_result.success \/ IsNonRetryable(api_result.message)
       THEN /\ result' = api_result
            /\ trace' = trace
            /\ pc' = "add_booking"
       ELSE /\ result' = result
            /\ trace' = Append(trace, "book_slot_selenium")
            /\ pc' = "book_slot_selenium"
    /\ UNCHANGED <<history_file, preferences_file, slot, bookings, credentials,
                   csrf_token, api_result, returned, calls, response, headers_post, psv_response, otherVars>>

SeleniumError(e) == Res(FALSE, <<"Selenium booking error: ", e>>)

\* book_slot_selenium: the square_id check and the launch of the browser
book_slot_selenium ==
    /\ pc = "book_slot_selenium"
    /\ IF ~Truthy(Get(slot, "square_id"))
       THEN /\ result' = Res(FALSE, <<"Missing square_id", " for Das Spiel booking.">>)
            /\ trace' = trace
            /\ pc' = "add_booking"
       ELSE /\ trace' = Append(trace, "browser launch")
            /\ \/ /\ result' = SeleniumError("WebDriverException")
                  /\ pc' = "add_booking"
               \/ /\ result' = result
                  /\ pc' = "sel_signin"
    /\ UNCHANGED <<history_file, preferences_file, slot, bookings, credentials,
                   csrf_token, api_result, returned, calls, response, headers_post, psv_response, otherVars>>

\* book_slot_selenium: the signin form and the check of the resulting URL
sel_signin ==
    /\ pc = "sel_signin"
    /\ \/ /\ trace' = Append(trace, "browser signin")
          /\ \/ result' = SeleniumError("WebDriverException")
             \/ /\ {"username", "password"} \subseteq DOMAIN credentials
                /\ result' = Res(FALSE, <<"Login failed - check credentials">>)
          /\ pc' = "add_booking"
       \/ /\ ~({"username", "password"} \subseteq DOMAIN credentials)
          /\ trace' = Append(trace, "browser signin")
          /\ result' = SeleniumError("'password'")
          /\ pc' = "add_booking"
       \/ /\ {"username", "password"} \subseteq DOMAIN credentials
          /\ trace' = trace \o <<"browser signin", "browser login ok">>
          /\ result' = result
          /\ pc' = "sel_calendar"
    /\ UNCHANGED <<history_file, preferences_file, slot, bookings, credentials,
                   csrf_token, api_result, returned, calls, response, headers_post, psv_response, otherVars>>

\* book_slot_selenium: the calendar page and the click on the slot's element
sel_calendar ==
    /\ pc = "sel_calendar"
    /\ trace' = Append(trace, "browser calendar")
    /\ \/ /\ result' = SeleniumError("WebDriverException")
          /\ pc' = "add_booking"
       \/ /\ result' = Res(FALSE, <<"Could not find time slot on calendar">>)
          /\ pc' = "add_booking"
       \/ /\ result' = result
          /\ pc' = "sel_rent"
    /\ UNCHANGED <<history_file, preferences_file, slot, bookings, credentials,
                   csrf_token, api_result, returned, calls, response, headers_post, psv_response, otherVars>>

\* book_slot_selenium: the "Platz mieten" button
sel_rent ==
    /\ pc = "sel_rent"
    /\ trace' = Append(trace, "browser rent")
    /\ \/ /\ result' = SeleniumError("WebDriverException")
          /\ pc' = "add_booking"
       \/ /\ result' = Res(FALSE, <<"Could not find 'Platz mieten' button">>)
          /\ pc' = "add_booking"
       \/ /\ result' = result
          /\ pc' = "sel_confirm"
    /\ UNCHANGED <<history_file, preferences_file, slot, bookings, credentials,
                   csrf_token, api_result, returned, calls, response, headers_post, psv_response, otherVars>>

\* book_slot_selenium: the checkboxes and the click on the confirmation button
sel_confirm ==
    /\ pc = "sel_confirm"
    /\ \/ /\ result' = SeleniumError("WebDriverException")
          /\ trace' = trace
          /\ pc' = "add_booking"
       \/ /\ result' = Res(FALSE, <<"Could not find confirmation button">>)
          /\ trace' = trace
          /\ pc' = "add_booking"
       \/ /\ result' = result
          /\ trace' = Append(trace, "browser confirm click")
          /\ pc' = "sel_page"
    /\ UNCHANGED <<history_file, preferences_file, slot, bookings, credentials,
                   csrf_token, api_result, returned, calls, response, headers_post, psv_response, otherVars>>

\* what the page shows after the confirmation click
PageMarkers == {"square-own-booking", "erfolgreich", "none"}

\* book_slot_selenium: the inspection of the page after the click
sel_page ==
    /\ pc = "sel_page"
    /\ \/ result' = SeleniumError("WebDriverException")
       \/ \E marker \in PageMarkers :
            result' = IF marker = "none"
                      THEN Res(TRUE, <<"Booking completed for ",
                                       Get(slot, "court_name"), " (please verify)">>)
                      ELSE Booked(slot)
    /\ pc' = "add_booking"
    /\ UNCHANGED <<history_file, preferences_file, slot, bookings, credentials,
                   csrf_token, api_result, returned, trace, calls, response, headers_post, psv_response, otherVars>>

\* ------------------------------------------------------------ PostSVBooker
PsvLoginError(e) == Res(FALSE, <<"Login error: ", e>>)
PsvBookingError(e) == Res(FALSE, <<"Booking error: ", e>>)

\* PostSVBooker.book_slot -> login(): the credentials check
psv_login ==
    /\ pc = "psv_login"
    /\ IF ~NonEmpty(credentials)
       THEN /\ result' = Res(FALSE, M_NoCredentials)
            /\ pc' = "add_booking"
       ELSE /\ result' = result
            /\ pc' = "psv_login_get"
    /\ UNCHANGED <<history_file, preferences_file, slot, bookings, credentials,
                   csrf_token, api_result, returned, trace, calls, response, headers_post, psv_response, otherVars>>

\* login(): GET of the login page, then the credentials read
psv_login_get ==
    /\ pc = "psv_login_get"
    /\ trace' = Append(trace, "GET login")
    /\ \/ \E e \in Transport :
            /\ result' = PsvLoginError(e)
            /\ pc' = "add_booking"
       \/ IF "password" \notin DOMAIN credentials
          THEN /\ result' = PsvLoginError("'password'")
               /\ pc' = "add_booking"
          ELSE /\ result' = result
               /\ pc' = "psv_login_post"
    /\ UNCHANGED <<history_file, preferences_file, slot, bookings, credentials,
                   csrf_token, api_result, returned, calls, response, headers_post, psv_response, otherVars>>

\* login(): POST of the login form; then book_slot reads the booking link
psv_login_post ==
    /\ pc = "psv_login_post"
    /\ \/ \E e \in Transport :
            /\ trace' = Append(trace, "POST login")
            /\ result' = PsvLoginError(e)
            /\ pc' = "add_booking"
       \/ \E url_has_login \in BOOLEAN, status \in {200, 500} :
            IF ~url_has_login /\ status = 200
            THEN /\ trace' = trace \o <<"POST login", "psv login ok">>
                 /\ IF ~Truthy(Get(slot, "booking_link"))
                    THEN /\ result' = Res(FALSE, <<"No booking link found in slot data">>)
                         /\ pc' = "add_booking"
                    ELSE /\ result' = result
                         /\ pc' = "psv_page"
            ELSE /\ trace' = Append(trace, "POST login")
                 /\ result' = Res(FALSE, <<"Login failed">>)
                 /\ pc' = "add_booking"
    /\ UNCHANGED <<history_file, preferences_file, slot, bookings, credentials,
                   csrf_token, api_result, returned, calls, response, headers_post, psv_response, otherVars>>

\* book_slot: GET of the page behind the booking link, and its form
psv_page ==
    /\ pc = "psv_page"
    /\ trace' = Append(trace, "GET booking page")
    /\ \/ \E e \in Transport :
            /\ result' = PsvBookingError(e)
            /\ pc' = "add_booking"
       \/ /\ result' = Res(FALSE, <<"Could not find booking form on page">>)
          /\ pc' = "add_booking"
       \/ /\ result' = result
          /\ pc' = "psv_post"
    /\ UNCHANGED <<history_file, preferences_file, slot, bookings, credentials,
                   csrf_token, api_result, returned, calls, response, headers_post, psv_response, otherVars>>

PsvResponses ==
    [status : {200, 500}, url_reservierung : BOOLEAN,
     text : {<<>>, <<"Fehler">>}]

\* PsvOutcome with the error marker looked for before the URL
PsvOutcome_marker_first(s, r) ==
    IF r.status = 200
    THEN IF HasErrorMarker(r.text)
         THEN Res(FALSE, <<"Booking failed - error message on page">>)
         ELSE IF r.url_reservierung THEN Booked(s)
         ELSE Res(TRUE, <<"Booking completed for ", Get(s, "court_name")>>)
    ELSE Res(FALSE, <<"Booking failed with HTTP status ", ToString(r.status)>>)

\* book_slot: the interpretation of the response to the form POST
PsvOutcome(s, r) ==
    IF r.status = 200
    THEN IF r.url_reservierung THEN Booked(s)
         ELSE IF HasErrorMarker(r.text)
         THEN Res(FALSE, <<"Booking failed - error message on page">>)
         ELSE Res(TRUE, <<"Booking completed for ", Get(s, "court_name")>>)
    ELSE Res(FALSE, <<"Booking failed with HTTP status ", ToString(r.status)>>)

\* book_slot: POST of the reconstructed form
psv_post ==
    /\ pc = "psv_post"
    /\ trace' = Append(trace, "POST booking form")
    /\ \/ \E e \in PostTransport :
            /\ result' = PsvBookingError(e)
            /\ psv_response' = psv_response
       \/ \E r \in PsvResponses :
            /\ result' = PsvOutcome(slot, r)
            /\ psv_response' = r
    /\ pc' = "add_booking"
    /\ UNCHANGED <<history_file, preferences_file, slot, bookings, credentials,
                   csrf_token, api_result, returned, calls, response, headers_post, otherVars>>

\* ------------------------------------------------- the log and the return
\* datetime.now().isoformat()
Now == ToString(calls)

\* the record BookingHistory.add_booking builds
Booking(s, status, error) ==
    [timestamp |-> Now, status |-> status, slot |-> s, error |-> error]

Return(r) == [kind |-> "value", success |-> r.success, message |-> r.message]
Raise == [kind |-> Raised, success |-> FALSE, message |-> <<>>]

\* add_booking with the selection logged whatever the outcome
add_booking_always_logging ==
    /\ pc = "add_booking"
    /\ bookings' = Append(bookings,
            Booking(slot, IF result.success THEN "success" ELSE "failed",
                    IF result.success THEN None ELSE result.message))
    /\ \/ /\ history_file' = bookings'
          /\ result' = result
          /\ pc' = "log_selection"
          /\ returned' = returned
       \/ /\ history_file' = history_file
          /\ result' = Res(FALSE, <<"Booking error: ", "OSError">>)
          /\ pc' = "except"
          /\ returned' = returned
    /\ UNCHANGED <<preferences_file, slot, credentials, csrf_token, api_result,
                   trace, calls, response, headers_post, psv_response, otherVars>>

\* book_court: history.add_booking of the attempt (append, then save)
add_booking ==
    /\ pc = "add_booking"
    /\ bookings' = Append(bookings,
            Booking(slot, IF result.success THEN "success" ELSE "failed",
                    IF result.success THEN None ELSE result.message))
    /\ \/ /\ history_file' = bookings'
          /\ result' = result
          /\ IF result.success
             THEN /\ pc' = "log_selection"
                  /\ returned' = returned
             ELSE /\ pc' = "idle"
                  /\ returned' = Return(result)
       \/ /\ history_file' = history_file
          /\ result' = Res(FALSE, <<"Booking error: ", "OSError">>)
          /\ pc' = "except"
          /\ returned' = returned
    /\ UNCHANGED <<preferences_file, slot, credentials, csrf_token, api_result,
                   trace, calls, response, headers_post, psv_response, otherVars>>

\* PreferenceEngine._categorize_time_of_day
_categorize_time_of_day(s) ==
    IF "time" \notin DOMAIN s THEN "unknown"
    ELSE IF s.time[1] < 12 THEN "morning"
    ELSE IF s.time[1] < 17 THEN "afternoon"
    ELSE "evening"

\* the record PreferenceEngine.log_selection builds
Selection(s) ==
    [timestamp |-> Now, venue |-> Get(s, "venue"), date |-> Get(s, "date"),
     time |-> Get(s, "time"), day_of_week |-> Get(s, "day_of_week"),
     time_of_day |-> _categorize_time_of_day(s), price |-> Get(s, "price"),
     court_type |-> Get(s, "court_type"), location |-> Get(s, "location"),
     indoor_outdoor |-> Get(s, "indoor_outdoor")]

\* book_court: the import of preference_engine, PreferenceEngine() and
\* log_selection(slot) (append, then save_preferences, which prints and
\* swallows a write error), then the return
log_selection ==
    /\ pc = "log_selection"
    /\ \/ /\ LET logged == Append(load_preferences, Selection(slot)) IN
                \/ /\ preferences_file' = logged
                   /\ trace' = trace
                \/ /\ preferences_file' = preferences_file
                   /\ trace' = Append(trace, "Error saving preferences")
          /\ result' = result
          /\ returned' = Return(result)
          /\ pc' = "idle"
       \/ /\ preferences_file' = preferences_file
          /\ trace' = trace
          /\ result' = Res(FALSE, <<"Booking error: ", "ImportError">>)
          /\ returned' = returned
          /\ pc' = "except"
    /\ UNCHANGED <<history_file, slot, bookings, credentials, csrf_token,
                   api_result, calls, response, headers_post, psv_response, otherVars>>

\* book_court: the except branch (add_booking with status error)
except ==
    /\ pc = "except"
    /\ bookings' = Append(bookings, Booking(slot, "error", result.message))
    /\ \/ /\ history_file' = bookings'
          /\ returned' = Return(result)
       \/ /\ history_file' = history_file
          /\ returned' = Raise
    /\ pc' = "idle"
    /\ UNCHANGED <<preferences_file, slot, credentials, csrf_token, api_result,
                   result, trace, calls, response, headers_post, psv_response, otherVars>>

Next ==
    \/ scrape
    \/ \E s \in CallerSlots \cup Range(results) : book_court(s)
    \/ book_slot_api
    \/ login_get
    \/ login_post
    \/ login_refresh
    \/ booking_data
    \/ rent_post
    \/ book_slot
    \/ book_slot_selenium
    \/ sel_signin
    \/ sel_calendar
    \/ sel_rent
    \/ sel_confirm
    \/ sel_page
    \/ psv_login
    \/ psv_login_get
    \/ psv_login_post
    \/ psv_page
    \/ psv_post
    \/ add_booking
    \/ log_selection
    \/ except

Spec == Init /\ [][Next]_vars

\* the Arsenal adapter alone, over all payloads and windows
InitScrape ==
    /\ history_file = <<>>
    /\ preferences_file = <<>>
    /\ pc = "idle"
    /\ slot = <<>>
    /\ bookings = <<>>
    /\ credentials = <<>>
    /\ csrf_token = None
    /\ api_result = NoResult
    /\ result = NoResult
    /\ returned = [kind |-> None, success |-> FALSE, message |-> <<>>]
    /\ trace = <<>>
    /\ calls = 0
    /\ response = NoResponse
    /\ headers_post = NoHeaders
    /\ psv_response = NoPsvResponse
    /\ calendar_data \in Calendars
    /\ window \in Windows
    /\ results = <<>>
    /\ InitLater

NextScrape == scrape

SpecScrape == InitScrape /\ [][NextScrape]_vars

\* ------------------------------------------- chat_message and ChatEngine
\* what scrape_all_portals and find_trainers give a chat search
ChatSlots ==
    << ArsenalSlot("Platz 1", "D1", <<10, 0>>, 60),
       PostSVSlot("Platz 2", "D1", <<18, 0>>, "20", "link1") >>
ChatSearchResults == {<<>>, SubSeq(ChatSlots, 1, 1), ChatSlots}
ChatTrainers ==
    << [trainer_name |-> "Tobias", date |-> "D1", time_start |-> <<10, 0>>,
        time_end |-> <<11, 0>>] >>

\* seq[:n] and seq[-n:]
Take(seq, n) == SubSeq(seq, 1, Min(Len(seq), n))
Last(seq, n) == SubSeq(seq, Max(1, Len(seq) - n + 1), Len(seq))

\* chat_message after process_message: the two history entries, the cut to
\* the last 20, and the context saved in the session
Save(ctx, intent, action) ==
    /\ context' = [ctx EXCEPT !.conversation_history =
            Last(@ \o << [role |-> "user", message |-> intent],
                         [role |-> "assistant", message |-> action] >>, 20)]
    /\ chat_response' = action
    /\ messages' = messages + 1

\* book_court(slot) as its caller sees it: what it returns or raises, and
\* the records it leaves in the two files
BookCourtRuns(s) ==
    LET venue == GetOr(s, "venue", <<>>)
        failure ==
            IF IsArsenalVenue(venue)
            THEN IF Truthy(Get(s, "square_id")) THEN <<"Login failed - check credentials">>
                 ELSE M_MissingSquareId
            ELSE IF IsPostSVVenue(venue)
            THEN IF Truthy(Get(s, "booking_link")) THEN <<"Login failed">>
                 ELSE <<"No booking link found in slot data">>
            ELSE <<"Unknown venue: ">> \o venue
        bookable ==
            \/ IsArsenalVenue(venue) /\ Truthy(Get(s, "square_id"))
            \/ ~IsArsenalVenue(venue) /\ IsPostSVVenue(venue)
                    /\ Truthy(Get(s, "booking_link"))
        error == <<"Booking error: ", "OSError">>
        \* datetime.now() of this invocation
        At(r) == [r EXCEPT !.timestamp = ToString(calls + 1)]
    IN  { [returned |-> Return(Res(FALSE, failure)),
           bookings |-> <<At(Booking(s, "failed", failure))>>,
           selections |-> <<>>],
          [returned |-> Return(Res(FALSE, error)),
           bookings |-> <<At(Booking(s, "error", error))>>,
           selections |-> <<>>],
          [returned |-> Raise, bookings |-> <<>>, selections |-> <<>>] }
        \cup (IF bookable
              THEN { [returned |-> Return(Booked(s)),
                      bookings |-> <<At(Booking(s, "success", None))>>,
                      selections |-> <<At(Selection(s))>>] }
              ELSE {})

\* a message with the intent search_court
_handle_search_court ==
    /\ messages < MaxMessages
    /\ \/ \E action \in {"clarification_needed", "error"} :
            /\ Save(context, "search_court", action)
       \/ \E slots \in ChatSearchResults :
            /\ Save([context EXCEPT
                        !.state = IF slots # <<>> THEN "RESULTS_SHOWN"
                                  ELSE "NO_RESULTS",
                        !.last_search = [type |-> "court",
                                         search |-> messages + 1],
                        !.last_results = Take(slots, 20)],
                    "search_court", "search_results")
    /\ UNCHANGED <<bookingVars, scrapeVars, extraVars, engineVars, portalVars, parserVars, attempts>>

\* a message with the intent search_trainer
_handle_search_trainer ==
    /\ messages < MaxMessages
    /\ \/ \E action \in {"clarification_needed", "error"} :
            /\ Save(context, "search_trainer", action)
       \/ \E trainers \in {<<>>, ChatTrainers} :
            /\ Save([context EXCEPT
                        !.state = IF trainers # <<>> THEN "RESULTS_SHOWN"
                                  ELSE "NO_RESULTS",
                        !.last_search = [type |-> "trainer",
                                         search |-> messages + 1],
                        !.last_results = Take(trainers, 20)],
                    "search_trainer", "search_results")
    /\ UNCHANGED <<bookingVars, scrapeVars, extraVars, engineVars, portalVars, parserVars, attempts>>

\* the slot references _extract_slot_reference finds in a message
SlotReferences == -1..2

\* the text of a message with the intent book: "book option N" for the slot
\* reference N - 1, "book" when it names no slot
BookMessage(has_ref, slot_ref) ==
    IF has_ref THEN "book option " \o ToString(slot_ref + 1) ELSE "book"

\* _handle_booking without the test slot_ref < 0: last_results[-1] is the
\* last slot of the list
_handle_booking_negative_index(has_ref, slot_ref) ==
    /\ messages < MaxMessages
    /\ LET last_results == GetOr(context, "last_results", <<>>)
           search_type == GetOr(GetOr(context, "last_search", <<>>), "type", "court")
       IN
       IF last_results = <<>>
       THEN /\ Save(context, BookMessage(has_ref, slot_ref), "error")
            /\ UNCHANGED <<bookingVars, attempts>>
       ELSE IF ~has_ref \/ slot_ref >= Len(last_results)
       THEN /\ Save(context, BookMessage(has_ref, slot_ref), "clarification_needed")
            /\ UNCHANGED <<bookingVars, attempts>>
       ELSE IF search_type = "trainer"
       THEN /\ Save(context, BookMessage(has_ref, slot_ref), "info")
            /\ UNCHANGED <<bookingVars, attempts>>
       ELSE LET s == last_results[IF slot_ref < 0 THEN Len(last_results) + slot_ref + 1 ELSE slot_ref + 1] IN
            \E run \in BookCourtRuns(s) :
                /\ calls' = calls + 1
                /\ attempts' = Append(attempts,
                        [slot |-> s, search |-> context.last_search.search])
                /\ history_file' = history_file \o run.bookings
                /\ preferences_file' = preferences_file \o run.selections
                /\ returned' = run.returned
                /\ IF run.returned.kind = Raised
                   THEN Save(context, BookMessage(has_ref, slot_ref), "error")
                   ELSE IF run.returned.success
                   THEN Save([last_booking |-> s] @@
                             [context EXCEPT !.state = "BOOKING_CONFIRMED"],
                             BookMessage(has_ref, slot_ref), "booking_success")
                   ELSE Save(context, BookMessage(has_ref, slot_ref), "booking_failed")
                /\ UNCHANGED <<pc, slot, bookings, credentials, csrf_token,
                               api_result, result, trace, response, headers_post,
                               psv_response>>
    /\ UNCHANGED <<scrapeVars, extraVars, engineVars, portalVars, parserVars>>

\* a message with the intent book: has_ref is false when the message names
\* no slot (slot_reference is None)
_handle_booking(has_ref, slot_ref) ==
    /\ messages < MaxMessages
    /\ LET last_results == GetOr(context, "last_results", <<>>)
           search_type == GetOr(GetOr(context, "last_search", <<>>), "type", "court")
       IN
       IF last_results = <<>>
       THEN /\ Save(context, BookMessage(has_ref, slot_ref), "error")
            /\ UNCHANGED <<bookingVars, attempts>>
       ELSE IF ~has_ref \/ slot_ref < 0 \/ slot_ref >= Len(last_results)
       THEN /\ Save(context, BookMessage(has_ref, slot_ref), "clarification_needed")
            /\ UNCHANGED <<bookingVars, attempts>>
       ELSE IF search_type = "trainer"
       THEN /\ Save(context, BookMessage(has_ref, slot_ref), "info")
            /\ UNCHANGED <<bookingVars, attempts>>
       ELSE LET s == last_results[slot_ref + 1] IN
            \E run \in BookCourtRuns(s) :
                /\ calls' = calls + 1
                /\ attempts' = Append(attempts,
                        [slot |-> s, search |-> context.last_search.search])
                /\ history_file' = history_file \o run.bookings
                /\ preferences_file' = preferences_file \o run.selections
                /\ returned' = run.returned
                /\ IF run.returned.kind = Raised
                   THEN Save(context, BookMessage(has_ref, slot_ref), "error")
                   ELSE IF run.returned.success
                   THEN Save([last_booking |-> s] @@
                             [context EXCEPT !.state = "BOOKING_CONFIRMED"],
                             BookMessage(has_ref, slot_ref), "booking_success")
                   ELSE Save(context, BookMessage(has_ref, slot_ref), "booking_failed")
                /\ UNCHANGED <<pc, slot, bookings, credentials, csrf_token,
                               api_result, result, trace, response, headers_post,
                               psv_response>>
    /\ UNCHANGED <<scrapeVars, extraVars, engineVars, portalVars, parserVars>>

\* a message with the intent cancel
cancel ==
    /\ messages < MaxMessages
    /\ Save([context EXCEPT !.state = "IDLE", !.last_results = <<>>],
            "cancel", None)
    /\ UNCHANGED <<bookingVars, scrapeVars, extraVars, engineVars, portalVars, parserVars, attempts>>

\* a message with another intent (greeting, history, help, thanks, unknown)
process_message ==
    /\ messages < MaxMessages
    /\ Save(context, "greeting", None)
    /\ UNCHANGED <<bookingVars, scrapeVars, extraVars, engineVars, portalVars, parserVars, attempts>>

\* POST /api/chat/clear: the context of the session is deleted
clear_chat ==
    /\ context # NoContext
    /\ context' = NoContext
    /\ UNCHANGED <<bookingVars, scrapeVars, extraVars, engineVars, portalVars, parserVars, chat_response, attempts, messages>>

NextChat ==
    \/ _handle_search_court
    \/ _handle_search_trainer
    \/ \E slot_ref \in SlotReferences : _handle_booking(TRUE, slot_ref)
    \/ _handle_booking(FALSE, 0)
    \/ cancel
    \/ process_message
    \/ clear_chat

SpecChat == Init /\ [][NextChat]_vars

\* ------------------------------------------------------- PreferenceEngine
CONFIDENCE_THRESHOLD == 5

\* the slots log_selection is called with, and the candidates
LoggedSlots ==
    { [venue |-> VenueArsenal, date |-> "D1", time |-> <<9, 0>>,
       day_of_week |-> "Monday", price |-> "N/A"],
      [venue |-> VenuePostSV, date |-> "D1", time |-> <<18, 0>>,
       price |-> "20"] }
Candidates ==
    { [venue |-> VenueArsenal, date |-> "D2", time |-> <<13, 0>>,
       day_of_week |-> "Monday", price |-> "20"],
      [venue |-> VenuePostSV, date |-> "D2", time |-> <<13, 0>>,
       day_of_week |-> "Monday", price |-> "20"],
      [venue |-> VenueOther, date |-> "D2", time |-> <<19, 0>>,
       day_of_week |-> "Monday", price |-> "20"] }
CandidateLists == UNION {[1..n -> Candidates] : n \in 0..MaxCandidates}

\* float(price): the strings it parses, and their values
IsFloat(price) == price \in {"10", "20", "30"}
Float(price) == CASE price = "10" -> 10 [] price = "20" -> 20 [] price = "30" -> 30

\* has_confidence true at the threshold only
has_confidence_at_threshold == Len(selections) = CONFIDENCE_THRESHOLD

has_confidence == Len(selections) >= CONFIDENCE_THRESHOLD

\* the Counters of _calculate_preference_score, read at the slot's key
venue_count(s) ==
    Cardinality({i \in DOMAIN selections :
        Truthy(selections[i].venue) /\ selections[i].venue = Get(s, "venue")})
time_of_day_count(s) ==
    Cardinality({i \in DOMAIN selections :
        Truthy(selections[i].time_of_day)
        /\ selections[i].time_of_day = _categorize_time_of_day(s)})
day_of_week_count(s) ==
    Cardinality({i \in DOMAIN selections :
        Truthy(selections[i].day_of_week)
        /\ selections[i].day_of_week = Get(s, "day_of_week")})

\* _get_average_price: the prices that parse, their sum and their number
RECURSIVE SumPrices(_)
SumPrices(sels) ==
    IF sels = <<>> THEN 0
    ELSE (IF Truthy(Head(sels).price) /\ IsFloat(Head(sels).price)
          THEN Float(Head(sels).price) ELSE 0) + SumPrices(Tail(sels))
NumPrices ==
    Cardinality({i \in DOMAIN selections :
        Truthy(selections[i].price) /\ IsFloat(selections[i].price)})
Abs(x) == IF x >= 0 THEN x ELSE -x

\* the price term applies: avg_price and slot.get('price') are truthy and
\* the slot's price parses
HasPriceTerm(s) ==
    SumPrices(selections) > 0 /\ Truthy(Get(s, "price")) /\ IsFloat(Get(s, "price"))

\* _calculate_preference_score as an exact number, in units of
\* 1 / (2 * len(selections) * sum of prices): 3, 2 and 1.5 times the three
\* frequencies, plus max(0, 1 - |price - avg| / avg)
_calculate_preference_score(s) ==
    LET sum == SumPrices(selections)
        unit == IF sum > 0 THEN sum ELSE 1
    IN  (6 * venue_count(s) + 4 * time_of_day_count(s) + 3 * day_of_week_count(s))
            * unit
        + (IF HasPriceTerm(s)
           THEN 2 * Len(selections)
                * Max(0, sum - Abs(Float(Get(s, "price")) * NumPrices - sum))
           ELSE 0)

\* the floating-point terms the score is summed from: two slots with the
\* same terms get the same float
Terms(s) ==
    << venue_count(s), time_of_day_count(s), day_of_week_count(s),
       IF HasPriceTerm(s) THEN Get(s, "price") ELSE None >>

\* scored_slots.sort(reverse=True)[0]: the first slot with the highest float
\* score.  Floats are ordered as the exact scores are, except that the sums
\* of different terms with the same exact value may round to different
\* floats, in either order
TopSlots(slots) ==
    LET score == [i \in DOMAIN slots |-> _calculate_preference_score(slots[i])]
        terms == [i \in DOMAIN slots |-> Terms(slots[i])]
    IN  {i \in DOMAIN slots :
            /\ \A j \in DOMAIN slots : score[j] <= score[i]
            /\ \A j \in 1..(i - 1) : terms[j] # terms[i]}

\* get_preferred_slot is called when the result of the call before it, if
\* any, has been read; it leaves the engine as it is
\* get_preferred_slot with the list sorted lowest score first
get_preferred_slot_lowest_first(slots) ==
    /\ available_slots = <<>>
    /\ available_slots' = slots
    /\ IF ~has_confidence \/ slots = <<>>
       THEN preferred' = <<>>
       ELSE \E i \in DOMAIN slots :
            /\ \A j \in DOMAIN slots :
                  _calculate_preference_score(slots[i])
                      <= _calculate_preference_score(slots[j])
            /\ preferred' = <<slots[i]>>
    /\ UNCHANGED <<bookingVars, scrapeVars, extraVars, chatVars, portalVars, parserVars, selections>>

\* get_preferred_slot with the confidence test dropped
get_preferred_slot_unconfident(slots) ==
    /\ available_slots = <<>>
    /\ available_slots' = slots
    /\ IF slots = <<>> \/ selections = <<>>
       THEN preferred' = <<>>
       ELSE \E i \in TopSlots(slots) : preferred' = <<slots[i]>>
    /\ UNCHANGED <<bookingVars, scrapeVars, extraVars, chatVars, portalVars, parserVars, selections>>

get_preferred_slot(slots) ==
    /\ available_slots = <<>>
    /\ available_slots' = slots
    /\ IF ~has_confidence \/ slots = <<>>
       THEN preferred' = <<>>
       ELSE \E i \in TopSlots(slots) : preferred' = <<slots[i]>>
    /\ UNCHANGED <<bookingVars, scrapeVars, extraVars, chatVars, portalVars, parserVars, selections>>

\* PreferenceEngine.log_selection: append, then save_preferences, which
\* prints and swallows a write error
engine_log_selection(s) ==
    /\ Len(selections) < MaxSelections
    /\ selections' = Append(selections, Selection(s))
    /\ \/ preferences_file' = selections'
       \/ preferences_file' = preferences_file
    /\ available_slots' = <<>>
    /\ preferred' = <<>>
    /\ UNCHANGED <<history_file, pc, slot, bookings, credentials, csrf_token,
                   api_result, result, returned, trace, calls, response,
                   headers_post, psv_response, scrapeVars, extraVars, chatVars, portalVars,
                   parserVars>>

\* the caller of get_preferred_slot has read what it returned
preferred_read ==
    /\ available_slots # <<>>
    /\ available_slots' = <<>>
    /\ preferred' = <<>>
    /\ UNCHANGED <<bookingVars, scrapeVars, extraVars, chatVars, portalVars, parserVars, selections>>

\* PreferenceEngine(): load_preferences reads the file
InitPreferences ==
    /\ InitBooking
    /\ history_file = <<>>
    /\ calendar_data = SampleCalendar
    /\ window = SampleWindow
    /\ results = <<>>
    /\ InitSession
    /\ InitPortals
    /\ InitParser
    /\ InitRace
    /\ InitCli
    /\ InitSearch
    /\ selections = load_preferences
    /\ available_slots = <<>>
    /\ preferred = <<>>

NextPreferences ==
    \/ \E s \in LoggedSlots : engine_log_selection(s)
    \/ \E slots \in CandidateLists : get_preferred_slot(slots)
    \/ preferred_read

SpecPreferences == InitPreferences /\ [][NextPreferences]_vars

\* ------------------------------ PostSVScraperV2 and scrape_all_portals
\* the locations argument: a dict with a flag for none, one or both venues
LocationDicts ==
    [{"arsenal", "postsv"} -> BOOLEAN] \cup [{"arsenal"} -> BOOLEAN]
        \cup [{"postsv"} -> BOOLEAN] \cup {<<>>}

\* PostSVScraperV2._load_credentials: data.get('postsv', {}), {} for a file
\* that is missing or does not parse
ScraperCredentials(file) ==
    IF file = "corrupt" THEN <<>> ELSE _load_credentials(file)

\* the reservation cells of the schedule page: court, free or not, and the
\* time=SECONDS of the link
SamplePage ==
    << [court_name |-> "Platz 2", free |-> TRUE,
        seconds |-> (FirstHour + 1) * 3600, price |-> "20"],
       [court_name |-> "Platz 2", free |-> FALSE,
        seconds |-> (FirstHour + 2) * 3600, price |-> "20"],
       [court_name |-> "Platz 3", free |-> TRUE,
        seconds |-> (LastHour + 6) * 3600 + 1800, price |-> "24"] >>
PostSVPages == {<<>>, SamplePage}

_is_in_timeframe(time, start_time, end_time) ==
    LET time_minutes == time[1] * 60 + time[2]
        start_minutes == start_time[1] * 60 + start_time[2]
        end_minutes == end_time[1] * 60 + end_time[2]
    IN  start_minutes <= time_minutes /\ time_minutes < end_minutes

\* PostSVScraperV2.scrape: the loop over the cells of the page
RECURSIVE ParseCells(_, _, _)
ParseCells(cells, date, w) ==
    IF cells = <<>> THEN <<>>
    ELSE LET cell == Head(cells)
             time_str == <<cell.seconds \div 3600, (cell.seconds % 3600) \div 60>>
         IN  (IF cell.free /\ _is_in_timeframe(time_str, w.start_time, w.end_time)
              THEN << PostSVSlot(cell.court_name, date, time_str, cell.price,
                                 <<"tennis.html?time=", ToString(cell.seconds)>>) >>
              ELSE <<>>)
             \o ParseCells(Tail(cells), date, w)

\* scrape_all_portals: the locations default
scrape_all_portals ==
    /\ spc \in {"idle", "done"}
    /\ \/ locations' = [arsenal |-> TRUE, postsv |-> TRUE]
       \/ \E l \in LocationDicts : locations' = l
    /\ all_results' = <<>>
    /\ dasspiel_results' = <<>>
    /\ postsv_results' = <<>>
    /\ scraper_credentials' = <<>>
    /\ fetches' = <<>>
    /\ spc' = "dasspiel"
    /\ UNCHANGED <<bookingVars, scrapeVars, extraVars, chatVars, engineVars, parserVars>>

\* scrape_all_portals: the Arsenal adapter, if selected
scrape_dasspiel ==
    /\ spc = "dasspiel"
    /\ IF GetOr(locations, "arsenal", TRUE)
       THEN /\ fetches' = fetches \o <<"DasSpielScraperV2", "GET calendar">>
            /\ \/ dasspiel_results' = ScrapeCourts(calendar_data, "D1", window)
               \/ dasspiel_results' = <<>>
            /\ all_results' = all_results \o dasspiel_results'
       ELSE UNCHANGED <<fetches, dasspiel_results, all_results>>
    /\ spc' = "postsv"
    /\ UNCHANGED <<bookingVars, scrapeVars, extraVars, chatVars, engineVars, parserVars, locations,
                   postsv_results, scraper_credentials>>

\* scrape_all_portals running the Post SV adapter whatever its flag says
scrape_postsv_unconditional ==
    /\ spc = "postsv"
    /\ \E file \in CredFiles :
            /\ scraper_credentials' = ScraperCredentials(file)
            /\ fetches' = Append(fetches, "PostSVScraperV2")
            /\ spc' = IF /\ NonEmpty(scraper_credentials')
                         /\ Truthy(Get(scraper_credentials', "username"))
                         /\ Truthy(Get(scraper_credentials', "password"))
                      THEN "_login" ELSE "done"
    /\ UNCHANGED <<bookingVars, scrapeVars, extraVars, chatVars, engineVars, parserVars, locations,
                   all_results, dasspiel_results, postsv_results>>

\* scrape_all_portals: the Post SV adapter, if selected, up to the first
\* request of _login
scrape_postsv ==
    /\ spc = "postsv"
    /\ IF GetOr(locations, "postsv", TRUE)
       THEN \E file \in CredFiles :
            /\ scraper_credentials' = ScraperCredentials(file)
            /\ fetches' = Append(fetches, "PostSVScraperV2")
            /\ spc' = IF /\ NonEmpty(scraper_credentials')
                         /\ Truthy(Get(scraper_credentials', "username"))
                         /\ Truthy(Get(scraper_credentials', "password"))
                      THEN "_login" ELSE "done"
       ELSE /\ UNCHANGED <<scraper_credentials, fetches>>
            /\ spc' = "done"
    /\ UNCHANGED <<bookingVars, scrapeVars, extraVars, chatVars, engineVars, parserVars, locations,
                   all_results, dasspiel_results, postsv_results>>

\* _login: GET of the login page and its form, POST of the credentials
_login ==
    /\ spc = "_login"
    /\ \/ /\ fetches' = Append(fetches, "GET login")
          /\ spc' = "done"
       \/ /\ fetches' = fetches \o <<"GET login", "POST login">>
          /\ spc' = "done"
       \/ \E url_has_login \in BOOLEAN, status \in {200, 500} :
            IF ~url_has_login /\ status = 200
            THEN /\ fetches' = fetches \o <<"GET login", "POST login",
                                            "Login successful!">>
                 /\ spc' = "schedule"
            ELSE /\ fetches' = fetches \o <<"GET login", "POST login">>
                 /\ spc' = "done"
    /\ UNCHANGED <<bookingVars, scrapeVars, extraVars, chatVars, engineVars, parserVars, locations,
                   all_results, dasspiel_results, postsv_results,
                   scraper_credentials>>

\* scrape without the test of what _login returned
schedule_without_login ==
    /\ spc \in {"schedule", "_login"}
    /\ fetches' = Append(fetches, "GET schedule")
    /\ \/ postsv_results' = <<>>
       \/ \E page \in PostSVPages :
            postsv_results' = ParseCells(page, "D1", window)
    /\ all_results' = all_results \o postsv_results'
    /\ spc' = "done"
    /\ UNCHANGED <<bookingVars, scrapeVars, extraVars, chatVars, engineVars, parserVars, locations,
                   dasspiel_results, scraper_credentials>>

\* scrape: GET of the schedule page of the date and the walk over its cells;
\* a failed request, another status or a redirect to the login give []
schedule ==
    /\ spc = "schedule"
    /\ fetches' = Append(fetches, "GET schedule")
    /\ \/ postsv_results' = <<>>
       \/ \E page \in PostSVPages :
            postsv_results' = ParseCells(page, "D1", window)
    /\ all_results' = all_results \o postsv_results'
    /\ spc' = "done"
    /\ UNCHANGED <<bookingVars, scrapeVars, extraVars, chatVars, engineVars, parserVars, locations,
                   dasspiel_results, scraper_credentials>>

NextPortals ==
    \/ scrape_all_portals
    \/ scrape_dasspiel
    \/ scrape_postsv
    \/ _login
    \/ schedule

SpecPortals == Init /\ [][NextPortals]_vars

\* ------------------------------------------------------ TimeframeParser
\* Texts are strings; the regular expressions are matched character by
\* character.  Char is text[i-1:i], "" outside the text.
Char(t, i) == IF i >= 1 /\ i <= Len(t) THEN SubSeq(t, i, i) ELSE ""
DigitChars == {"0", "1", "2", "3", "4", "5", "6", "7", "8", "9"}
LetterChars == {SubSeq("abcdefghijklmnopqrstuvwxyz", i, i) : i \in 1..26}
\* \w and \s of the re module on ASCII text
WordChars == DigitChars \cup LetterChars \cup {"_"}
SpaceChars == {" ", "\t", "\n"}
IsDigit(t, i) == Char(t, i) \in DigitChars

\* int() of a string of digits
RECURSIVE int(_)
int(str) ==
    IF str = "" THEN 0
    ELSE 10 * int(SubSeq(str, 1, Len(str) - 1))
            + (CHOOSE n \in 0..9 : ToString(n) = SubSeq(str, Len(str), Len(str)))

\* f"{n:02d}"
Format02d(n) == IF n < 10 THEN "0" \o ToString(n) ELSE ToString(n)

\* sub in t
In(sub, t) ==
    \E i \in 1..(Len(t) - Len(sub) + 1) : SubSeq(t, i, i + Len(sub) - 1) = sub

\* str.lower() on ASCII text
LowerChar(c) ==
    IF \E i \in 1..26 : SubSeq("ABCDEFGHIJKLMNOPQRSTUVWXYZ", i, i) = c
    THEN LET i == CHOOSE k \in 1..26 : SubSeq("ABCDEFGHIJKLMNOPQRSTUVWXYZ", k, k) = c
         IN  SubSeq("abcdefghijklmnopqrstuvwxyz", i, i)
    ELSE c
RECURSIVE LowerFrom(_, _)
LowerFrom(t, i) ==
    IF i > Len(t) THEN "" ELSE LowerChar(Char(t, i)) \o LowerFrom(t, i + 1)
lower(t) == LowerFrom(t, 1)

\* str.strip(): the text between its first and its last character that is no
\* whitespace
strip(t) ==
    LET inside == {i \in 1..Len(t) : Char(t, i) \notin SpaceChars}
    IN  IF inside = {} THEN ""
        ELSE SubSeq(t, CHOOSE i \in inside : \A j \in inside : i <= j,
                       CHOOSE i \in inside : \A j \in inside : i >= j)

\* _normalize_input on ASCII text, where the replacements of curly quotes,
\* dashes and no-break spaces find nothing: re.sub(r'\s+', ' ', text)
RECURSIVE NormalizeFrom(_, _)
NormalizeFrom(t, i) ==
    IF i > Len(t) THEN ""
    ELSE IF Char(t, i) \in SpaceChars
         THEN (IF Char(t, i + 1) \in SpaceChars THEN "" ELSE " ") \o NormalizeFrom(t, i + 1)
         ELSE Char(t, i) \o NormalizeFrom(t, i + 1)
_normalize_input(t) == NormalizeFrom(t, 1)

\* text[a-1:b], cut at the end of the text
Slice(t, a, b) ==
    IF a > Len(t) \/ a > b THEN "" ELSE SubSeq(t, a, IF b > Len(t) THEN Len(t) ELSE b)

\* (\d{1,2}) followed by one of seps (no digit among them): the number of
\* digits the group takes at i, 0 for no match
Digits12(t, i, seps) ==
    IF IsDigit(t, i) /\ IsDigit(t, i + 1) /\ Char(t, i + 2) \in seps THEN 2
    ELSE IF IsDigit(t, i) /\ Char(t, i + 1) \in seps THEN 1
    ELSE 0

\* (\d{1,2}) with nothing required after it
Digits12Greedy(t, i) ==
    IF IsDigit(t, i) /\ IsDigit(t, i + 1) THEN 2 ELSE IF IsDigit(t, i) THEN 1 ELSE 0

\* \s* from i: the position of the first character that is no whitespace
RECURSIVE SkipSpaces(_, _)
SkipSpaces(t, i) == IF Char(t, i) \in SpaceChars THEN SkipSpaces(t, i + 1) ELSE i

\* (pm|am)? at i
Period(t, i) == IF Slice(t, i, i + 1) \in {"pm", "am"} THEN Slice(t, i, i + 1) ELSE None

\* A match in progress is <<position of the next character, groups so far>>,
\* <<>> once it has failed.  Each piece of an expression takes the match up
\* to it and gives the match after it.
Start(i) == <<i, <<>>>>

\* a literal
Lit(m, t, str) ==
    IF m # <<>> /\ Slice(t, m[1], m[1] + Len(str) - 1) = str
    THEN <<m[1] + Len(str), m[2]>> ELSE <<>>

\* one character of a class, as [./]
OneOf(m, t, chars) ==
    IF m # <<>> /\ Char(t, m[1]) \in chars THEN <<m[1] + 1, m[2]>> ELSE <<>>

\* \b before a word character
WordBoundary(m, t) ==
    IF m # <<>> /\ Char(t, m[1] - 1) \notin WordChars THEN m ELSE <<>>

\* \s* (least = 0) and \s+ (least = 1)
Spaces(m, t, least) ==
    IF m # <<>> /\ SkipSpaces(t, m[1]) >= m[1] + least
    THEN <<SkipSpaces(t, m[1]), m[2]>> ELSE <<>>

\* a group of n characters from the position of the match
Group(m, t, n) == <<m[1] + n, Append(m[2], SubSeq(t, m[1], m[1] + n - 1))>>

\* (\d{1,2}) before one of seps
Group12(m, t, seps) ==
    IF m # <<>> /\ Digits12(t, m[1], seps) > 0
    THEN Group(m, t, Digits12(t, m[1], seps)) ELSE <<>>

\* (\d{1,2}), as many digits as there are
Group12Greedy(m, t) ==
    IF m # <<>> /\ Digits12Greedy(t, m[1]) > 0
    THEN Group(m, t, Digits12Greedy(t, m[1])) ELSE <<>>

\* (\d{2}) and (\d{4})
GroupDigits(m, t, n) ==
    IF m # <<>> /\ \A d \in 0..(n - 1) : IsDigit(t, m[1] + d)
    THEN Group(m, t, n) ELSE <<>>

\* (pm|am)?
GroupPeriod(m, t) ==
    IF m = <<>> THEN <<>>
    ELSE IF Period(t, m[1]) = None THEN <<m[1], Append(m[2], None)>>
    ELSE <<m[1] + 2, Append(m[2], Period(t, m[1]))>>

\* (\d{1,2})[./](\d{1,2})[./](\d{4}) at i
MatchDMY(t, i) ==
    GroupDigits(OneOf(Group12(OneOf(Group12(Start(i), t, {".", "/"}), t, {".", "/"}),
                              t, {".", "/"}), t, {".", "/"}), t, 4)

\* (\d{4})-(\d{1,2})-(\d{1,2}) at i
MatchYMD(t, i) ==
    Group12Greedy(Lit(Group12(Lit(GroupDigits(Start(i), t, 4), t, "-"), t, {"-"}), t, "-"), t)

\* \bat\s+(\d{1,2}):(\d{2}) at i
MatchAt(t, i) ==
    GroupDigits(Lit(Group12(Spaces(Lit(WordBoundary(Start(i), t), t, "at"), t, 1),
                            t, {":"}), t, ":"), t, 2)

\* (\d{1,2}):(\d{2}) from the match m
HourMinute(m, t) == GroupDigits(Lit(Group12(m, t, {":"}), t, ":"), t, 2)

\* \s*-\s* from the match m
Dash(m, t) == Spaces(Lit(Spaces(m, t, 0), t, "-"), t, 0)

\* (\d{1,2}):(\d{2})\s*-\s*(\d{1,2}):(\d{2}) at i
MatchRange24(t, i) == HourMinute(Dash(HourMinute(Start(i), t), t), t)

\* (\d{1,2})\s*-\s*(\d{1,2})\s*(pm|am)? at i
MatchHours(t, i) ==
    GroupPeriod(Spaces(Group12Greedy(Dash(Group12Greedy(Start(i), t), t), t), t, 0), t)

\* (\d{1,2}):(\d{2})\s*(pm|am)?\s*-\s*(\d{1,2}):(\d{2})\s*(pm|am)? at i
MatchRange12(t, i) ==
    GroupPeriod(Spaces(HourMinute(Dash(GroupPeriod(Spaces(HourMinute(Start(i), t), t, 0), t),
                                       t), t), t, 0), t)

\* (\d{1,2}):?(\d{2})? : the ways to match it, in the order the matcher tries
\* them: digits of the hour, the colon taken or not, the minutes taken or not
NumberWays ==
    << <<2, TRUE, TRUE>>, <<2, TRUE, FALSE>>, <<2, FALSE, TRUE>>, <<2, FALSE, FALSE>>,
       <<1, TRUE, TRUE>>, <<1, TRUE, FALSE>>, <<1, FALSE, TRUE>>, <<1, FALSE, FALSE>> >>

\* :? and (\d{2})? taken or left as the way w says
Colon(m, t, w) == IF w[2] THEN Lit(m, t, ":") ELSE m
Minutes(m, t, w) ==
    IF m = <<>> THEN <<>>
    ELSE IF w[3] THEN GroupDigits(m, t, 2) ELSE <<m[1], Append(m[2], None)>>

\* the number matched in the way w
Number(m, t, w) == Minutes(Colon(GroupDigits(m, t, w[1]), t, w), t, w)

Least(S) == CHOOSE w \in S : \A v \in S : w <= v

\* the number at the end of the expression: the first way that matches
LastNumber(m, t) ==
    IF \E w \in DOMAIN NumberWays : Number(m, t, NumberWays[w]) # <<>>
    THEN Number(m, t, NumberWays[Least({w \in DOMAIN NumberWays :
                                           Number(m, t, NumberWays[w]) # <<>>})])
    ELSE <<>>

\* \s+and\s+ and the second number
AndNumber(m, t) == LastNumber(Spaces(Lit(Spaces(m, t, 1), t, "and"), t, 1), t)

\* the first number and what follows it: the first way with which the rest of
\* the expression matches
NumberAndNumber(m, t) ==
    IF \E w \in DOMAIN NumberWays : AndNumber(Number(m, t, NumberWays[w]), t) # <<>>
    THEN AndNumber(Number(m, t, NumberWays[Least({w \in DOMAIN NumberWays :
                        AndNumber(Number(m, t, NumberWays[w]), t) # <<>>})]), t)
    ELSE <<>>

\* between\s+(\d{1,2}):?(\d{2})?\s+and\s+(\d{1,2}):?(\d{2})? at i
MatchBetween(t, i) == NumberAndNumber(Spaces(Lit(Start(i), t, "between"), t, 1), t)

\* the match of a pattern at i
Match(pattern, t, i) ==
    CASE pattern = "DMY" -> MatchDMY(t, i)
      [] pattern = "YMD" -> MatchYMD(t, i)
      [] pattern = "at" -> MatchAt(t, i)
      [] pattern = "HH:MM-HH:MM" -> MatchRange24(t, i)
      [] pattern = "H-H" -> MatchHours(t, i)
      [] pattern = "H:MM pm-H:MM pm" -> MatchRange12(t, i)
      [] pattern = "between" -> MatchBetween(t, i)

\* re.search: the groups of the match at the leftmost position that has one,
\* <<>> for None
RECURSIVE SearchFrom(_, _, _)
SearchFrom(t, pattern, i) ==
    IF i > Len(t) THEN <<>>
    ELSE IF Match(pattern, t, i) # <<>> THEN <<Match(pattern, t, i)[2]>>
    ELSE SearchFrom(t, pattern, i + 1)
Search(t, pattern) == SearchFrom(t, pattern, 1)

WEEKDAYS ==
    << <<"monday", 0>>, <<"mon", 0>>, <<"tuesday", 1>>, <<"tue", 1>>,
       <<"wednesday", 2>>, <<"wed", 2>>, <<"thursday", 3>>, <<"thu", 3>>,
       <<"friday", 4>>, <<"fri", 4>>, <<"saturday", 5>>, <<"sat", 5>>,
       <<"sunday", 6>>, <<"sun", 6>> >>

\* datetime(year, month, day) raises ValueError outside the calendar
IsLeap(year) == year % 4 = 0 /\ (year % 100 # 0 \/ year % 400 = 0)
DaysInMonth(year, month) ==
    IF month = 2 THEN (IF IsLeap(year) THEN 29 ELSE 28)
    ELSE IF month \in {4, 6, 9, 11} THEN 30 ELSE 31
ValidDate(year, month, day) ==
    /\ year \in 1..9999
    /\ month \in 1..12
    /\ day \in 1..DaysInMonth(year, month)

\* datetime(int(year), int(month), int(day)): <<the date>>, <<>> for ValueError
datetime(year, month, day) ==
    IF ValidDate(int(year), int(month), int(day))
    THEN << [day |-> int(day), month |-> int(month), year |-> int(year)] >>
    ELSE <<>>

\* the loop over date_patterns: <<the date>> it returns, <<>> when it falls
\* through (no match, or ValueError and pass)
DatePatterns(dmy, ymd) ==
    IF dmy # <<>> /\ datetime(dmy[1][3], dmy[1][2], dmy[1][1]) # <<>>
    THEN datetime(dmy[1][3], dmy[1][2], dmy[1][1])
    ELSE IF ymd # <<>> THEN datetime(ymd[1][1], ymd[1][2], ymd[1][3])
    ELSE <<>>
ExplicitDate(t) == DatePatterns(Search(t, "DMY"), Search(t, "YMD"))

\* the loop over WEEKDAYS.items(): the first name, in the order of the dict,
\* that is in the text
WeekdayHits(t) == {i \in DOMAIN WEEKDAYS : In(WEEKDAYS[i][1], t)}
FirstWeekdayHit(t) == Least(WeekdayHits(t))

\* days_ahead: the target day already happened this week, or is today
days_ahead(weekday_num, now) ==
    IF weekday_num - (now % 7) <= 0
    THEN weekday_num - (now % 7) + 7 ELSE weekday_num - (now % 7)

\* a date is [ordinal |-> day number] or [day, month, year] of a literal
_extract_date(t, now) ==
    IF ExplicitDate(t) # <<>> THEN ExplicitDate(t)[1]
    ELSE IF In("today", t) THEN [ordinal |-> now]
    ELSE IF In("tomorrow", t) THEN [ordinal |-> now + 1]
    ELSE IF In("next week", t) THEN [ordinal |-> now + 7]
    ELSE IF WeekdayHits(t) # {}
         THEN [ordinal |-> now + days_ahead(WEEKDAYS[FirstWeekdayHit(t)][2], now)]
    ELSE [ordinal |-> now]

\* the hour of an H:MM or H with its am/pm
Hour12(hour, period) == IF period = "pm" /\ hour # 12 THEN hour + 12 ELSE hour

\* the (start, end) of the groups of an at_match: hour and minute
AtRange(groups) ==
    <<Format02d(int(groups[1])) \o ":" \o groups[2],
      Format02d((int(groups[1]) + 1) % 24) \o ":" \o groups[2]>>

\* HH:MM-HH:MM
Range24(groups) ==
    <<Format02d(int(groups[1])) \o ":" \o Format02d(int(groups[2])),
      Format02d(int(groups[3])) \o ":" \o Format02d(int(groups[4]))>>

\* Simple H-H format
RangeHours(groups) ==
    <<Format02d(Hour12(int(groups[1]), groups[3])) \o ":00",
      Format02d(Hour12(int(groups[2]), groups[3])) \o ":00">>

\* H:MM am/pm - H:MM am/pm
Range12(groups) ==
    <<Format02d(Hour12(int(groups[1]), groups[3])) \o ":" \o groups[2],
      Format02d(Hour12(int(groups[4]), groups[6])) \o ":" \o groups[5]>>

\* between X and Y
BetweenRange(groups) ==
    <<Format02d(int(groups[1])) \o ":" \o (IF groups[2] = None THEN "00" ELSE groups[2]),
      Format02d(int(groups[3])) \o ":" \o (IF groups[4] = None THEN "00" ELSE groups[4])>>

\* the loop over time_patterns: <<(start, end)>> of the first pattern of the
\* list that matches, <<>> when none does
TimePatterns(m1, m2, m3) ==
    IF m1 # <<>> THEN <<Range24(m1[1])>>
    ELSE IF m2 # <<>> THEN <<RangeHours(m2[1])>>
    ELSE IF m3 # <<>> THEN <<Range12(m3[1])>>
    ELSE <<>>

\* the (start, end) from the matches with the single time tried last
RangesFirst(at_match, ranges, between_match) ==
    IF ranges # <<>> THEN ranges[1]
    ELSE IF between_match # <<>> THEN BetweenRange(between_match[1])
    ELSE IF at_match # <<>> THEN AtRange(at_match[1])
    ELSE <<"09:00", "21:00">>

\* the (start, end) from the matches, in the order of the code
AtFirst(at_match, ranges, between_match) ==
    IF at_match # <<>> THEN AtRange(at_match[1])
    ELSE IF ranges # <<>> THEN ranges[1]
    ELSE IF between_match # <<>> THEN BetweenRange(between_match[1])
    ELSE <<"09:00", "21:00">>

\* the single time tried after the ranges
_extract_time_range_ranges_first(t) ==
    RangesFirst(Search(t, "at"),
                TimePatterns(Search(t, "HH:MM-HH:MM"), Search(t, "H-H"),
                             Search(t, "H:MM pm-H:MM pm")),
                Search(t, "between"))

\* a (start, end) pair of strings
_extract_time_range(t) ==
    AtFirst(Search(t, "at"),
            TimePatterns(Search(t, "HH:MM-HH:MM"), Search(t, "H-H"),
                         Search(t, "H:MM pm-H:MM pm")),
            Search(t, "between"))

\* the texts the parser is given
Texts ==
    { "monday", "mon", "Tuesday", "tue", "wednesday", "wed", "thursday", "thu",
      "friday", "fri", "saturday", "sat", "sunday", "sun",
      "next monday 6-8pm", "friday evening 18-20", "sunday or monday",
      "saturday with a friend", "friday  at 23:30", "at 9:05", "at 24:00",
      "Sat 10:00-12:00", "monday at 10:00 6-8pm", "10:00-12:00 at 7:15",
      "between 15 and 18 at 8:00", "thu 6:00pm-8:00pm at 7:45",
      "tomorrow 10:00-12:00", "today 9-11", "next week", "2026-01-07",
      "7.1.2026 between 15:00 and 18:00", "31.2.2026 fri", "between 150 and 18",
      "6:00pm-8:00pm", "12-1pm", "", "7.1.2026", "12-11pm", "9am-1pm" }

\* TimeframeParser(): self.today = datetime.now(); nothing parsed yet
TimeframeParser ==
    /\ tpc \in {"none", "parsed"}
    /\ \E now \in 0..6 : today' = now
    /\ tpc' = "ready"
    /\ parse_text' = ""
    /\ parsed' = NoTimeframe
    /\ UNCHANGED <<bookingVars, scrapeVars, extraVars, chatVars, engineVars, portalVars>>

\* parse
parse ==
    /\ tpc = "ready"
    /\ \E given \in Texts :
        \E lowered \in {strip(lower(given))} :
        \E t \in {_normalize_input(lowered)} :
        \E range \in {_extract_time_range(t)} :
            /\ parse_text' = t
            /\ parsed' = [date |-> _extract_date(t, today),
                          start_time |-> range[1],
                          end_time |-> range[2]]
    /\ tpc' = "parsed"
    /\ UNCHANGED <<bookingVars, scrapeVars, extraVars, chatVars, engineVars, portalVars, today>>

NextParser ==
    \/ TimeframeParser
    \/ parse

\* no booking has been made and no file written
InitTimeframe ==
    /\ Init
    /\ history_file = <<>>
    /\ preferences_file = <<>>

SpecParser == InitTimeframe /\ [][NextParser]_vars

\* --------------------------------- two book_court invocations at a time
\* the state of one invocation's booking, which the race leaves alone
attemptVars == <<pc, slot, bookings, credentials, csrf_token, api_result, result, returned, trace, calls, response, headers_post, psv_response>>

\* the slot each invocation was called with, and its clock
InvocationSlot(p) ==
    IF p = 1
    THEN [venue |-> VenueArsenal, date |-> "D1", time |-> <<10, 0>>,
          court_name |-> "Platz 1", square_id |-> "sq1"]
    ELSE [venue |-> VenuePostSV, date |-> "D1", time |-> <<18, 0>>,
          court_name |-> "Platz 2", booking_link |-> "link1"]
Clock(p) == ToString(p)

\* the records add_booking and log_selection of invocation p build
RaceBooking(p) ==
    [timestamp |-> Clock(p), status |-> IF rsuccess[p] THEN "success" ELSE "failed",
     slot |-> InvocationSlot(p),
     error |-> IF rsuccess[p] THEN None ELSE <<"Login failed">>]
RaceSelection(p) == [Selection(InvocationSlot(p)) EXCEPT !.timestamp = Clock(p)]

\* open(file, 'w'): the file is emptied, whoever else has it open
Open(file, p) == [file EXCEPT !.opened = @ \cup {p}, !.written = FALSE, !.garbled = FALSE]

\* json.dump and the end of the with block: the bytes go to the start of the
\* file; over bytes another writer left since this open they need not parse
Close(file, p, garbled) == [opened |-> file.opened \ {p}, written |-> TRUE, garbled |-> garbled, last |-> p]
Garbles(file) == IF file.written THEN BOOLEAN ELSE {FALSE}

\* what load() returns after the save: the copy, [] when the bytes do not parse
Saved(copy, garbled) == IF garbled THEN <<>> ELSE copy

\* book_court: history = BookingHistory(), which loads the file
race_book_court(p) ==
    /\ rpc[p] = "idle"
    /\ rbookings' = [rbookings EXCEPT ![p] = load]
    /\ rpc' = [rpc EXCEPT ![p] = "book_slot"]
    /\ UNCHANGED <<history_file, preferences_file, rselections, rsuccess, history_bytes, preferences_bytes>>
    /\ UNCHANGED <<attemptVars, scrapeVars, chatVars, engineVars, portalVars, parserVars, cliVars, searchVars>>

\* book_court: the booker of the venue has returned
race_book_slot(p) ==
    /\ rpc[p] = "book_slot"
    /\ \E success \in BOOLEAN : rsuccess' = [rsuccess EXCEPT ![p] = success]
    /\ rpc' = [rpc EXCEPT ![p] = "add_booking"]
    /\ UNCHANGED <<history_file, preferences_file, rbookings, rselections, history_bytes, preferences_bytes>>
    /\ UNCHANGED <<attemptVars, scrapeVars, chatVars, engineVars, portalVars, parserVars, cliVars, searchVars>>

\* add_booking: the append, and save() up to the open of the file
race_add_booking(p) ==
    /\ rpc[p] = "add_booking"
    /\ rbookings' = [rbookings EXCEPT ![p] = Append(@, RaceBooking(p))]
    /\ history_bytes' = Open(history_bytes, p)
    /\ history_file' = <<>>
    /\ rpc' = [rpc EXCEPT ![p] = "save"]
    /\ UNCHANGED <<preferences_file, rselections, rsuccess, preferences_bytes>>
    /\ UNCHANGED <<attemptVars, scrapeVars, chatVars, engineVars, portalVars, parserVars, cliVars, searchVars>>

\* save(): json.dump(self.bookings, f) and the close of the file
race_save(p) ==
    /\ rpc[p] = "save"
    /\ \E garbled \in Garbles(history_bytes) :
        /\ history_bytes' = Close(history_bytes, p, garbled)
        /\ history_file' = Saved(rbookings[p], garbled)
    /\ rpc' = [rpc EXCEPT ![p] = IF rsuccess[p] THEN "PreferenceEngine" ELSE "done"]
    /\ UNCHANGED <<preferences_file, rbookings, rselections, rsuccess, preferences_bytes>>
    /\ UNCHANGED <<attemptVars, scrapeVars, chatVars, engineVars, portalVars, parserVars, cliVars, searchVars>>

\* book_court: pref_engine = PreferenceEngine(), which loads the file
race_PreferenceEngine(p) ==
    /\ rpc[p] = "PreferenceEngine"
    /\ rselections' = [rselections EXCEPT ![p] = load_preferences]
    /\ rpc' = [rpc EXCEPT ![p] = "log_selection"]
    /\ UNCHANGED <<history_file, preferences_file, rbookings, rsuccess, history_bytes, preferences_bytes>>
    /\ UNCHANGED <<attemptVars, scrapeVars, chatVars, engineVars, portalVars, parserVars, cliVars, searchVars>>

\* log_selection: the append, and save_preferences up to the open of the file
race_log_selection(p) ==
    /\ rpc[p] = "log_selection"
    /\ rselections' = [rselections EXCEPT ![p] = Append(@, RaceSelection(p))]
    /\ preferences_bytes' = Open(preferences_bytes, p)
    /\ preferences_file' = <<>>
    /\ rpc' = [rpc EXCEPT ![p] = "save_preferences"]
    /\ UNCHANGED <<history_file, rbookings, rsuccess, history_bytes>>
    /\ UNCHANGED <<attemptVars, scrapeVars, chatVars, engineVars, portalVars, parserVars, cliVars, searchVars>>

\* save_preferences: json.dump(data, f) and the close of the file
race_save_preferences(p) ==
    /\ rpc[p] = "save_preferences"
    /\ \E garbled \in Garbles(preferences_bytes) :
        /\ preferences_bytes' = Close(preferences_bytes, p, garbled)
        /\ preferences_file' = Saved(rselections[p], garbled)
    /\ rpc' = [rpc EXCEPT ![p] = "done"]
    /\ UNCHANGED <<history_file, rbookings, rselections, rsuccess, history_bytes>>
    /\ UNCHANGED <<attemptVars, scrapeVars, chatVars, engineVars, portalVars, parserVars, cliVars, searchVars>>

NextRace ==
    \E p \in Invocations :
        \/ race_book_court(p)
        \/ race_book_slot(p)
        \/ race_add_booking(p)
        \/ race_save(p)
        \/ race_PreferenceEngine(p)
        \/ race_log_selection(p)
        \/ race_save_preferences(p)

SpecRace == Init /\ [][NextRace]_vars

\* ------------------------------------------------------- main.main (CLI)
\* the slots the search showed: an Arsenal slot as the adapter builds it
\* (without square_id) and a Post SV slot with its booking link
CliSlots ==
    << [venue |-> VenueArsenal, date |-> "D1", time |-> <<10, 0>>,
        court_name |-> "Platz 1"],
       [venue |-> VenuePostSV, date |-> "D1", time |-> <<18, 0>>,
        court_name |-> "Platz 2", booking_link |-> "link1"] >>

\* main: pref_engine = PreferenceEngine(), which loads the file
main ==
    /\ cpc = "start"
    /\ pref_selections' = load_preferences
    /\ cpc' = "prompt_user_selection"
    /\ UNCHANGED <<bookingVars, scrapeVars, chatVars, engineVars, portalVars, parserVars, raceVars, searchVars, selected_slot, should_book>>

\* prompt_user_selection: 'n' (choice 0) or a slot number, then yes or no
prompt_user_selection ==
    /\ cpc = "prompt_user_selection"
    /\ \E choice \in 0..Len(CliSlots), book_choice \in BOOLEAN :
        IF choice = 0
        THEN /\ selected_slot' = <<>>
             /\ should_book' = FALSE
             /\ cpc' = "done"
        ELSE /\ selected_slot' = <<CliSlots[choice]>>
             /\ should_book' = book_choice
             /\ cpc' = "log_selection"
    /\ UNCHANGED <<bookingVars, scrapeVars, chatVars, engineVars, portalVars, parserVars, raceVars, searchVars, pref_selections>>

\* main: pref_engine.log_selection(selected_slot), whose write error is
\* printed and swallowed
main_log_selection ==
    /\ cpc = "log_selection"
    /\ pref_selections' = Append(pref_selections, Selection(selected_slot[1]))
    /\ \/ preferences_file' = pref_selections'
       \/ preferences_file' = preferences_file
    /\ cpc' = IF should_book THEN "book_court" ELSE "done"
    /\ UNCHANGED <<history_file, attemptVars, scrapeVars, chatVars, engineVars, portalVars, parserVars, raceVars, searchVars, selected_slot, should_book>>

\* main: success, message = book_court(selected_slot)
main_book_court ==
    /\ cpc = "book_court"
    /\ calls = 0
    /\ book_court(selected_slot[1])

\* main: book_court has returned or raised
main_done ==
    /\ cpc = "book_court"
    /\ calls > 0
    /\ pc = "idle"
    /\ cpc' = "done"
    /\ UNCHANGED <<bookingVars, scrapeVars, chatVars, engineVars, portalVars, parserVars, raceVars, searchVars, pref_selections, selected_slot, should_book>>

NextCli ==
    \/ main
    \/ prompt_user_selection
    \/ main_log_selection
    \/ main_book_court
    \/ book_slot_api
    \/ book_slot
    \/ psv_login
    \/ psv_login_get
    \/ psv_login_post
    \/ psv_page
    \/ psv_post
    \/ add_booking
    \/ log_selection
    \/ except
    \/ main_done

SpecCli == Init /\ [][NextCli]_vars

\* ------------------------------------------------------ app.search (/search)
\* slots[:20]
SlotsShown == 20

\* what scrape_all_portals returns: n slots in all, Arsenal slots at
\* different times and, at position at (0: none), one Post SV slot
FoundSlots(n, at) ==
    [i \in 1..n |->
        IF i = at THEN PostSVSlot("Platz 2", "D1", <<18, 0>>, "20", "link1")
        ELSE ArsenalSlot("Platz 1", "D1", <<FirstHour, i>>, 60)]

\* user_preferences.json: empty, or enough selections of one venue
PastSelections(venue, time) ==
    [i \in 1..CONFIDENCE_THRESHOLD |->
        [PriorSelection EXCEPT !.venue = venue, !.time = time,
                               !.time_of_day = IF time[1] < 12 THEN "morning" ELSE "evening"]]
SearchHistories ==
    {<<>>, PastSelections(VenuePostSV, <<18, 0>>), PastSelections(VenueArsenal, <<FirstHour, 0>>)}

\* list.index(x), counted from 0
Index(list, x) ==
    (CHOOSE i \in DOMAIN list : list[i] = x /\ \A j \in 1..(i - 1) : list[j] # x) - 1

\* search, court mode: the portals are scraped and PreferenceEngine() loads
\* the selections
search ==
    /\ search_pc = "idle"
    /\ \E n \in 0..MaxSlots : \E at \in 0..n : search_slots' = FoundSlots(n, at)
    /\ selections' = load_preferences
    /\ available_slots' = <<>>
    /\ preferred' = <<>>
    /\ response_data' = NoResponseData
    /\ search_pc' = "rank"
    /\ UNCHANGED <<bookingVars, scrapeVars, chatVars, portalVars, parserVars, raceVars, cliVars>>

\* search: preferred = slots.index(preferred_slot), slots[:20], len(slots)
Respond(slots, chosen) ==
    [slots |-> Take(slots, SlotsShown), total |-> Len(slots),
     preferred_index |-> IF chosen = <<>> THEN <<>> ELSE <<Index(slots, chosen[1])>>]

\* search: has_confidence, get_preferred_slot and the response
search_rank ==
    /\ search_pc = "rank"
    /\ available_slots' = search_slots
    /\ IF has_confidence /\ search_slots # <<>>
       THEN \E i \in TopSlots(search_slots) : preferred' = <<search_slots[i]>>
       ELSE preferred' = <<>>
    /\ response_data' = Respond(search_slots, preferred')
    /\ search_pc' = "idle"
    /\ UNCHANGED <<bookingVars, scrapeVars, chatVars, portalVars, parserVars, raceVars, cliVars, selections, search_slots>>

InitSearchRequest ==
    /\ history_file = <<>>
    /\ preferences_file \in SearchHistories
    /\ InitAttempt
    /\ calendar_data = SampleCalendar
    /\ window = SampleWindow
    /\ results = <<>>
    /\ InitLater

NextSearch ==
    \/ search
    \/ search_rank

SpecSearch == InitSearchRequest /\ [][NextSearch]_vars

\* ================================================================ claims
Venue == GetOr(slot, "venue", <<>>)
Count(ev) == Cardinality({i \in DOMAIN trace : trace[i] = ev})
\* every occurrence of event b in the trace has an event a before it
EventBefore(a, b) ==
    \A i \in DOMAIN trace : trace[i] = b => \E j \in 1..(i - 1) : trace[j] = a
FallbackStarted == Contains(trace, "book_slot_selenium")
ApiReturned == api_result # NoResult
\* records written by the invocation that runs or ran last
IsCurrent(r) == r.timestamp = Now
IsFromThisRun(r) == r.timestamp # "0"
CurrentSelections == SelectSeq(preferences_file, IsCurrent)

\* C1: every invocation of book_court, whatever its outcome, appends exactly
\* one record with a non-null timestamp to the booking-attempt log, so that
\* after n invocations the log has grown by exactly n records.
C1_OneRecordPerInvocation ==
    pc = "idle" =>
        /\ Len(SelectSeq(history_file, IsFromThisRun)) = calls
        /\ \A i \in DOMAIN history_file : history_file[i].timestamp # None

\* C2: for a slot whose venue names none of the known venues, book_court
\* returns (False, "Unknown venue: <venue>") without a booker, a login or a
\* network request, whatever the environment does.
C2_UnknownVenue ==
    (calls >= 1 /\ ~IsArsenalVenue(Venue) /\ ~IsPostSVVenue(Venue)) =>
        /\ trace = <<>>
        /\ pc = "idle" =>
            returned = Return(Res(FALSE, <<"Unknown venue: ">> \o Venue))

\* C3: on the API path, the browser path and the Post SV path, a reservation
\* is submitted only after the login of that path has succeeded in the same
\* attempt.
C3_LoginBeforeSubmission ==
    /\ EventBefore("api login ok", "POST rent")
    /\ EventBefore("browser login ok", "browser confirm click")
    /\ EventBefore("psv login ok", "POST booking form")

C3_Witness ==
    /\ Contains(trace, "POST rent")
    /\ Contains(trace, "browser confirm click")

\* the portal answered the signin POST with something else than "signed-in"
LoginRejected ==
    /\ Len(api_result.message) >= 2
    /\ api_result.message[1] = "Login failed: "
    /\ api_result.message[2] = "Login failed: "

\* a failure message that names one of the three non-retryable reasons
NamesNonRetryable(message) ==
    \/ Contains(message, "Missing square_id")
    \/ Contains(message, "No credentials")
    \/ Contains(message, "Validation error")

C5_FallbackIffRetryable ==
    (ApiReturned /\ pc # "book_slot") =>
        /\ FallbackStarted <=>
            (~api_result.success /\ ~NamesNonRetryable(api_result.message))
        /\ ~FallbackStarted =>
            /\ ~Contains(trace, "browser launch")
            /\ pc = "add_booking" => result = api_result
        /\ Count("book_slot_selenium") <= 1
        /\ Count("browser launch") <= 1

C5_Witness ==
    /\ FallbackStarted
    /\ Contains(trace, "POST rent")
    /\ pc = "add_booking"

C7_SuccessStatuses ==
    (/\ response.status \in {200, 201, 302, 303}
     /\ response.json # 0
     /\ ~HasErrorMarker(response.text)) =>
        /\ api_result.success
        /\ ~FallbackStarted

C9_SearchSlotsCarrySquareId ==
    /\ \A s \in Range(results) : Truthy(Get(s, "square_id"))
    /\ (calls >= 1 /\ slot \in Range(results)) =>
            ~Contains(api_result.message, "Missing square_id")

\* C10: the Arsenal adapter returns no slot whose start time lies inside
\* [start, end) of a rental of the slot's court.
C10_NoSlotInsideRental ==
    \A s \in Range(results) : \A c \in Range(calendar_data) :
        c.name = s.court_name =>
            \A r \in Range(c.rentals) :
                ~(~Before(s.time, r.time_start) /\ Before(s.time, r.time_end))

\* C11: every slot the Arsenal adapter returns starts at or after the opening
\* time of its court and the requested start time, and strictly before the
\* closing time of its court and the requested end time.
C11_SlotInsideBothIntervals ==
    \A s \in Range(results) : \A c \in Range(calendar_data) :
        c.name = s.court_name =>
            /\ ~Before(s.time, c.time_start)
            /\ ~Before(s.time, window.start_time)
            /\ Before(s.time, c.time_end)
            /\ Before(s.time, window.end_time)

\* C12: once book_court has been called from the chat for a slot of the
\* stored search results, no later "book option N" against the same stored
\* results calls book_court with that slot again.
C12_NoSecondAttemptOnSlot ==
    \A i, j \in DOMAIN attempts : i # j => attempts[i] # attempts[j]

\* C13: book_court never raises: whatever fails inside it, the caller gets
\* (False, message).
C13_NeverRaises ==
    returned.kind # Raised

\* C14: on a PreferenceEngine, has_confidence() is true exactly when at least
\* 5 selections are recorded, whatever they contain, and no log_selection or
\* get_preferred_slot call makes it false again.
C14_ConfidenceIffFive ==
    [][/\ has_confidence <=> Len(selections) >= 5
       /\ has_confidence => has_confidence']_vars

C14_Witness ==
    /\ Len(selections) = 6
    /\ has_confidence
    /\ \E i \in DOMAIN selections : ~Truthy(selections[i].day_of_week)

\* C15: get_preferred_slot returns None whenever fewer than 5 selections are
\* recorded, and a slot it returns is one of the candidates it was given.
C15_NoneBelowThreshold ==
    /\ (Len(selections) < 5) => preferred = <<>>
    /\ preferred # <<>> => preferred[1] \in Range(available_slots)

C15_Witness ==
    /\ Len(selections) = 5
    /\ Len(available_slots) = 2
    /\ preferred = <<available_slots[2]>>

\* the candidates of the last call, their exact scores, and the first
\* position that holds a highest one
ScoreOf(i) == _calculate_preference_score(available_slots[i])
IsHighest(i) == \A j \in DOMAIN available_slots : ScoreOf(j) <= ScoreOf(i)
FirstHighest ==
    CHOOSE i \in DOMAIN available_slots :
        IsHighest(i) /\ \A j \in 1..(i - 1) : ~IsHighest(j)
\* every selection is at the Arsenal venue and the candidates differ in the
\* venue only
AllAtArsenal ==
    /\ has_confidence
    /\ \A i \in DOMAIN selections : selections[i].venue = VenueArsenal
    /\ \E i \in DOMAIN available_slots : available_slots[i].venue = VenueArsenal
    /\ \A i \in DOMAIN available_slots :
            /\ available_slots[i].venue \in {VenueArsenal, VenuePostSV}
            /\ available_slots[i].time = <<13, 0>>

\* C16 as claimed: a returned slot is the first candidate of the list among
\* those with the highest total score 3 x venue frequency + 2 x time-of-day
\* frequency + 1.5 x weekday frequency + price proximity.
C16_FirstOfHighestScore ==
    preferred # <<>> => preferred[1] = available_slots[FirstHighest]

\* C16 amended: a returned slot has the highest total score; it is the first
\* candidate of the list among those whose score is summed from the same
\* terms; with 5 or more selections all at one venue and candidates that
\* differ in the venue only, a candidate of that venue is returned.
C16_HighestScoreFirstOfSameTerms ==
    preferred # <<>> =>
        /\ \A j \in DOMAIN available_slots :
              ScoreOf(j) <= _calculate_preference_score(preferred[1])
        /\ \E i \in DOMAIN available_slots :
              /\ preferred[1] = available_slots[i]
              /\ \A j \in 1..(i - 1) :
                    Terms(available_slots[j]) # Terms(available_slots[i])
        /\ AllAtArsenal => preferred[1].venue = VenueArsenal

C16_Witness ==
    /\ Len(available_slots) = 2
    /\ available_slots[1] # available_slots[2]
    /\ Terms(available_slots[1]) = Terms(available_slots[2])
    /\ venue_count(available_slots[1]) > 0
    /\ preferred = <<available_slots[1]>>

\* the venue of a slot is the Arsenal venue / the Post SV venue
IsArsenalSlot(s) == s.venue = VenueArsenal
IsPostSVSlot(s) == s.venue = VenuePostSV
ArsenalOff == ~GetOr(locations, "arsenal", TRUE)
PostSVOff == ~GetOr(locations, "postsv", TRUE)

\* C17: scrape_all_portals with the flag of a venue false neither constructs
\* nor calls the adapter of that venue and returns no slot of it; the slots of
\* the other venue are returned as its adapter gave them.
C17_DisabledVenueNotQueried ==
    spc # "idle" =>
        /\ ArsenalOff =>
            /\ ~Contains(fetches, "DasSpielScraperV2")
            /\ ~Contains(fetches, "GET calendar")
            /\ \A s \in Range(all_results) : ~IsArsenalSlot(s)
            /\ all_results = postsv_results
        /\ PostSVOff =>
            /\ ~Contains(fetches, "PostSVScraperV2")
            /\ ~Contains(fetches, "GET login")
            /\ ~Contains(fetches, "GET schedule")
            /\ \A s \in Range(all_results) : ~IsPostSVSlot(s)
            /\ spc \in {"postsv", "done"} => all_results = dasspiel_results

C17_Witness ==
    /\ spc = "done"
    /\ PostSVOff
    /\ ~ArsenalOff
    /\ all_results # <<>>

\* C18: the Post SV adapter requests the schedule page only after its login
\* has succeeded in the same scrape; without credentials or with a failed
\* login it returns [] and requests no schedule page.
C18_ScheduleAfterLogin ==
    /\ \A i \in DOMAIN fetches : fetches[i] = "GET schedule" =>
            \E j \in 1..(i - 1) : fetches[j] = "Login successful!"
    /\ (spc = "done" /\ ~Contains(fetches, "Login successful!")) =>
            /\ postsv_results = <<>>
            /\ ~Contains(fetches, "GET schedule")

C18_Witness ==
    /\ spc = "done"
    /\ Contains(fetches, "GET schedule")
    /\ postsv_results # <<>>

\* the weekdays the text names as words of their own
IsWordAt(name, t, i) ==
    /\ Slice(t, i, i + Len(name) - 1) = name
    /\ Char(t, i - 1) \notin WordChars
    /\ Char(t, i + Len(name)) \notin WordChars
NamedWeekdays(t) ==
    {WEEKDAYS[n][2] : n \in {k \in DOMAIN WEEKDAYS : \E i \in 1..Len(t) : IsWordAt(WEEKDAYS[k][1], t, i)}}
NoOtherDate(t) ==
    /\ ExplicitDate(t) = <<>>
    /\ ~In("today", t) /\ ~In("tomorrow", t) /\ ~In("next week", t)

\* C19: a text with a weekday name, and neither a date literal nor today,
\* tomorrow or next week, is given a date 1 to 7 days after today that falls
\* on the named weekday, 7 days after when today is that weekday.
C19_NextOccurrenceOfNamedWeekday ==
    (tpc = "parsed" /\ NoOtherDate(parse_text) /\ NamedWeekdays(parse_text) # {}) =>
        LET ahead == parsed.date.ordinal - today
        IN  /\ ahead \in 1..7
            /\ (parsed.date.ordinal % 7) \in NamedWeekdays(parse_text)
            /\ NamedWeekdays(parse_text) = {today % 7} => ahead = 7

\* the arithmetic alone: whatever name the parser took, the date is 1 to 7
\* days after today, and 7 days after when it falls on today's weekday
C19_OneToSevenDaysAhead ==
    (tpc = "parsed" /\ NoOtherDate(parse_text) /\ WeekdayHits(parse_text) # {}) =>
        LET ahead == parsed.date.ordinal - today
        IN  /\ ahead \in 1..7
            /\ (parsed.date.ordinal % 7 = today % 7) => ahead = 7

\* C20: a text with "at HH:MM" is given start HH:MM and end ((HH+1) mod 24):MM
\* with the same minutes, whatever other time range the text holds.
C20_AtGivesOneHour ==
    (tpc = "parsed" /\ Search(parse_text, "at") # <<>>) =>
        LET HH == int(Search(parse_text, "at")[1][1])
            MM == Search(parse_text, "at")[1][2]
        IN  /\ parsed.start_time = Format02d(HH) \o ":" \o MM
            /\ parsed.end_time = Format02d((HH + 1) % 24) \o ":" \o MM

C20_Witness ==
    /\ tpc = "parsed"
    /\ parse_text = "10:00-12:00 at 7:15"
    /\ parsed.start_time = "07:15"
    /\ parsed.end_time = "08:15"

\* the whole text is one date: a literal, a relative keyword or a weekday name
WholeText(m, t) == m # <<>> /\ m[1] = Len(t) + 1
OnlyADate(t) ==
    \/ WholeText(MatchYMD(t, 1), t)
    \/ WholeText(MatchDMY(t, 1), t)
    \/ t \in {"today", "tomorrow", "next week"}
    \/ \E n \in DOMAIN WEEKDAYS : t = WEEKDAYS[n][1]

\* C21: a text that is only a date (a YYYY-MM-DD or DD.MM.YYYY literal, a
\* relative keyword, a weekday name) and so holds no time range is given the
\* default window 09:00 to 21:00.
C21_DefaultWindowForDateOnly ==
    (tpc = "parsed" /\ OnlyADate(parse_text)) =>
        /\ parsed.start_time = "09:00"
        /\ parsed.end_time = "21:00"

\* the same without the YYYY-MM-DD literal
C21_DefaultWindowExceptIsoLiteral ==
    (tpc = "parsed" /\ OnlyADate(parse_text) /\ ~WholeText(MatchYMD(parse_text, 1), parse_text)) =>
        /\ parsed.start_time = "09:00"
        /\ parsed.end_time = "21:00"

\* a 24-hour HH:MM time: two digits from 00 to 23, a colon, two digits from 00
\* to 59
ValidTime(str) ==
    /\ Len(str) = 5
    /\ IsDigit(str, 1) /\ IsDigit(str, 2) /\ Char(str, 3) = ":"
    /\ IsDigit(str, 4) /\ IsDigit(str, 5)
    /\ int(SubSeq(str, 1, 2)) <= 23
    /\ int(SubSeq(str, 4, 5)) <= 59

\* C30: whatever the text, the start_time and the end_time the parser returns
\* are valid 24-hour HH:MM times.
C30_ValidTimes ==
    tpc = "parsed" => (ValidTime(parsed.start_time) /\ ValidTime(parsed.end_time))

\* the booking POST of the Arsenal API path timed out or lost its connection
RentPostFailed ==
    /\ Contains(trace, "POST rent")
    /\ api_result \in {Res(FALSE, <<"Booking request timed out">>)} \cup
                      {Res(FALSE, <<"API booking error: ", e>>) : e \in Transport}

\* a request of PostSVBooker.book_slot timed out or lost its connection
PsvRequestFailed ==
    /\ Contains(trace, "PostSVBooker")
    /\ result \in {PsvBookingError(e) : e \in PostTransport}

\* C22: a timeout or connection error of the Arsenal booking request is
\* retryable, book_slot starts the browser fallback (once); the same failure
\* of a Post SV booking request makes book_slot return a failure, with no
\* browser and no request sent a second time.
C22_TransportFailure ==
    /\ RentPostFailed =>
        /\ ~NamesNonRetryable(api_result.message)
        /\ pc # "book_slot" => Count("book_slot_selenium") = 1
    /\ PsvRequestFailed =>
        /\ ~result.success
        /\ pc \in {"add_booking", "log_selection", "except", "idle"}
        /\ ~FallbackStarted
        /\ ~Contains(trace, "browser launch")
        /\ Count("GET booking page") <= 1
        /\ Count("POST booking form") <= 1

C22_Witness ==
    /\ RentPostFailed
    /\ api_result.message = <<"Booking request timed out">>
    /\ Contains(trace, "browser launch")
    /\ pc = "add_booking"

C22_WitnessPostSV ==
    /\ PsvRequestFailed
    /\ Contains(trace, "POST booking form")
    /\ pc = "idle"

\* C23: every booking POST of the Arsenal API path carries the anti-forgery
\* token retained by the login of the attempt, and no booking POST is sent
\* when the login obtained no token.
C23_PostCarriesToken ==
    Contains(trace, "POST rent") =>
        /\ Truthy(csrf_token)
        /\ "X_CSRF_TOKEN" \in DOMAIN headers_post
        /\ headers_post["X_CSRF_TOKEN"] = csrf_token

\* what does hold: a token the login retained is in the headers of the POST
C23_RetainedTokenIsSent ==
    (Contains(trace, "POST rent") /\ Truthy(csrf_token)) =>
        /\ "X_CSRF_TOKEN" \in DOMAIN headers_post
        /\ headers_post["X_CSRF_TOKEN"] = csrf_token

\* the browser path has returned to book_slot, which has returned to book_court
BrowserReturned == FallbackStarted /\ pc = "add_booking"
Confirmed == Contains(trace, "browser confirm click")
Tentative(s) == Res(TRUE, <<"Booking completed for ", Get(s, "court_name"), " (please verify)">>)

\* C24: in the browser path a step before the confirmation that cannot be
\* completed gives a failure; once the confirmation button has been clicked
\* the result is the confirmed success (a success marker is on the page) or
\* the success to be verified (no marker).
C24_BrowserOutcomes ==
    BrowserReturned =>
        IF ~Confirmed THEN ~result.success
        ELSE result \in {Booked(slot), Tentative(slot)}

\* what does hold: after the click the result may also be the failure of the
\* browser itself
C24_OutcomesOrBrowserError ==
    BrowserReturned =>
        IF ~Confirmed THEN ~result.success
        ELSE result \in {Booked(slot), Tentative(slot), SeleniumError("WebDriverException")}

\* the three outcomes of the browser path
C24_ReachedConfirmed == BrowserReturned /\ result = Booked(slot)
C24_ReachedTentative == BrowserReturned /\ result = Tentative(slot)
C24_ReachedFailure == BrowserReturned /\ ~Confirmed /\ ~result.success /\ Contains(trace, "browser rent")

\* the Post SV portal answered the POST of the reconstructed form
PsvAnswered == psv_response # NoPsvResponse /\ pc = "add_booking"

\* C25: after the form POST of a Post SV booking, a status other than 200 is
\* a failure; 200 with the final URL on the reservation path is a success
\* even with an error marker in the body; 200 otherwise is a failure exactly
\* when the body holds an error marker, and an unverified success if not.
C25_PostSVOutcome ==
    PsvAnswered =>
        /\ psv_response.status # 200 => ~result.success
        /\ (psv_response.status = 200 /\ psv_response.url_reservierung) =>
                result = Booked(slot)
        /\ (psv_response.status = 200 /\ ~psv_response.url_reservierung) =>
            /\ ~result.success <=> HasErrorMarker(psv_response.text)
            /\ result.success =>
                result = Res(TRUE, <<"Booking completed for ", Get(slot, "court_name")>>)

C25_Witness ==
    /\ PsvAnswered
    /\ psv_response.status = 200
    /\ psv_response.url_reservierung
    /\ HasErrorMarker(psv_response.text)
    /\ result.success

\* nobody is inside a save of the file, and somebody has saved it
Settled(file) == file.opened = {} /\ file.last # 0
HasRecordOf(log, p) == \E i \in DOMAIN log : log[i].timestamp = Clock(p)

\* C26: with two book_court invocations interleaved, each log as persisted is
\* the copy of the invocation that wrote last (what it loaded plus its own
\* record), which can lack the other invocation's record.
C26_LastWriterWins ==
    /\ Settled(history_bytes) =>
        /\ ~history_bytes.garbled
        /\ history_file = rbookings[history_bytes.last]
    /\ Settled(preferences_bytes) =>
        /\ ~preferences_bytes.garbled
        /\ preferences_file = rselections[preferences_bytes.last]

\* what does hold: the last writer's copy, unless the two saves overlapped and
\* left bytes that do not parse, which load() reads as []
C26_LastWriterOrNothing ==
    /\ Settled(history_bytes) =>
        history_file = Saved(rbookings[history_bytes.last], history_bytes.garbled)
    /\ Settled(preferences_bytes) =>
        preferences_file = Saved(rselections[preferences_bytes.last], preferences_bytes.garbled)

\* both invocations are done, the log parses, and the record of one is lost
C26_LostUpdate ==
    /\ \A p \in Invocations : rpc[p] = "done"
    /\ ~history_bytes.garbled
    /\ HasRecordOf(history_file, 2)
    /\ ~HasRecordOf(history_file, 1)
C26_LostSelection ==
    /\ \A p \in Invocations : rpc[p] = "done" /\ rsuccess[p]
    /\ ~preferences_bytes.garbled
    /\ Len(preferences_file) = Len(rselections[1])
    /\ Len(rselections[1]) = Len(rselections[2])

\* the user picked a slot, said yes, and book_court returned a success
BookedFromCli ==
    /\ cpc = "done"
    /\ selected_slot # <<>>
    /\ should_book
    /\ returned.kind = "value" /\ returned.success

\* C27: a user of the command line who picks a slot and books it with
\* success adds exactly one Selection record to the persisted preferences:
\* the file holds what main loaded plus one record.
C27_OneSelectionPerChoice ==
    BookedFromCli => Len(preferences_file) = Len(pref_selections)

\* what does hold: a pick alone adds one record; a pick booked with success
\* adds two when both writes succeed
C27_OneForThePickOneForTheBooking ==
    /\ (cpc = "done" /\ selected_slot # <<>> /\ ~should_book) =>
            Len(preferences_file) \in {Len(pref_selections) - 1, Len(pref_selections)}
    /\ BookedFromCli => Len(preferences_file) <= Len(pref_selections) + 1
C27_TwoRecords ==
    /\ BookedFromCli
    /\ Len(preferences_file) = Len(pref_selections) + 1
    /\ preferences_file[Len(preferences_file)].venue = preferences_file[Len(preferences_file) - 1].venue

\* the handler has answered a court search
Answered == search_pc = "idle" /\ available_slots # <<>>

\* C28: the preferred_index of a /search response is null or an index into
\* the slots of the same response (the first 20), and the slot there is the
\* one get_preferred_slot chose.
C28_PreferredIndexValid ==
    (Answered /\ response_data.preferred_index # <<>>) =>
        /\ response_data.preferred_index[1] + 1 \in DOMAIN response_data.slots
        /\ response_data.slots[response_data.preferred_index[1] + 1] = preferred[1]

\* what does hold: the index is one of the whole list the search found
C28_IndexIntoAllSlots ==
    (Answered /\ response_data.preferred_index # <<>>) =>
        /\ response_data.preferred_index[1] + 1 \in DOMAIN search_slots
        /\ search_slots[response_data.preferred_index[1] + 1] = preferred[1]
        /\ response_data.total <= SlotsShown => response_data.slots = search_slots

\* the text of the user's message chat_message stored last
LastUserMessage(ctx) ==
    ctx.conversation_history[Len(ctx.conversation_history) - 1].message

\* chat_message has just answered "book" (has_ref false) or "book option N"
BookAnswered(has_ref, slot_ref) ==
    /\ messages' = messages + 1
    /\ LastUserMessage(context') = BookMessage(has_ref, slot_ref)

\* the context holds results of a court search and the option names one of them
Bookable(ctx, has_ref, slot_ref) ==
    /\ ctx.last_results # <<>>
    /\ has_ref
    /\ slot_ref + 1 \in 1..Len(ctx.last_results)
    /\ ctx.last_search.type = "court"

\* two contexts that differ at most in the history chat_message appends to
SameButHistory(a, b) ==
    [a EXCEPT !.conversation_history = <<>>] = [b EXCEPT !.conversation_history = <<>>]

\* C29: the chat booking handler calls book_court only when the context holds
\* a non-empty last_results, the option lies in 1..len(last_results) and the
\* last search was a court search; in every other case (no results, no option,
\* an option out of range such as 0, trainer results) no booking is attempted,
\* no file is written and the handler returns the context as it got it.
C29_BookOnlyValidCourtOption ==
    [][\A has_ref \in BOOLEAN, slot_ref \in SlotReferences :
        (BookAnswered(has_ref, slot_ref) /\ ~Bookable(context, has_ref, slot_ref)) =>
            /\ calls' = calls
            /\ attempts' = attempts
            /\ history_file' = history_file
            /\ preferences_file' = preferences_file
            /\ SameButHistory(context', context)]_vars

\* "book option 0" against stored court results: a clarification, no attempt
C29_Witness ==
    /\ context.last_results # <<>>
    /\ context.last_search.type = "court"
    /\ LastUserMessage(context) = "book option 0"
    /\ chat_response = "clarification_needed"
    /\ attempts = <<>>

\* "book option 1" against trainer results: an information, no attempt
C29_ReachedTrainer ==
    /\ context.last_results # <<>>
    /\ context.last_search.type = "trainer"
    /\ LastUserMessage(context) = "book option 1"
    /\ chat_response = "info"
    /\ attempts = <<>>

\* "book option 2" against two stored court results: book_court is called
C29_ReachedBooking ==
    /\ Len(context.last_results) = 2
    /\ LastUserMessage(context) = "book option 2"
    /\ Len(attempts) = 1
    /\ attempts[1].slot = context.last_results[2]
    /\ calls = 1
====
